---------------------------- MODULE Spec2Model ----------------------------
(***************************************************************************)
(* Venue occupancy backend: the busy-ness aggregation of the REST server   *)
(* (src/src/routes/venues.ts), the two status classifiers (the seed script *)
(* and the fallback server) and the synthetic popular-times generator.     *)
(*                                                                         *)
(* Conventions.                                                            *)
(*  - A Date is the number of whole hours since a Sunday 00:00 local time; *)
(*    getHours and getDay are computed from it.                            *)
(*  - A JavaScript array is a function on 0..length-1.                     *)
(*  - A JavaScript number produced by a division n / d of two small        *)
(*    integers is the fraction in lowest terms [num, den]: IEEE-754        *)
(*    division is correctly rounded, so for operands of this size two      *)
(*    quotients are the same double exactly when they are the same         *)
(*    rational, and > on the doubles is > on the rationals.                *)
(*  - A string that the code inspects character by character is a sequence *)
(*    of one-character strings.                                            *)
(***************************************************************************)
EXTENDS Integers, Sequences, FiniteSets, TLC

VARIABLES
    busySnapshot,   \* the busySnapshot table, in insertion order
    response,       \* the response of the last request served by the REST server
    content,        \* the rows written to the deal, event, post and venue tables, in order
    seedVenue,      \* seed script: index in venuesData of the venue being seeded
    seedNow,        \* seed script: `now` of that venue
    seedI,          \* seed script: the loop counter i
    seedCreated,    \* seed script: data of its last busySnapshot.create
    seedProbe,      \* a percentage and the status the seed script's rule gives it
    fallbackProbe,  \* a percentage and the status statusFromOccupancy gives it
    busyTimesCall,  \* last call of generateBusyTimes: its random draws and result
    liveCache,      \* fallback server: the NodeCache of live data, key -> entry
    now,            \* fallback server: Date.now(), in seconds since its start
    inFlight,       \* fallback server: requests received and not yet delivered
    venueCategory,  \* the category of the venue the generator is asked about
    dayPattern,     \* last call of generateDayPattern: its day and its result
    popularTimes,   \* last result of generateEstimatedPopularTimes
    rateLimits,     \* REST server: the records of the three RateLimiterMemory stores
    clock,          \* REST server: Date.now(), in seconds since its start
    userTable,      \* REST server: the user table
    auditLog,       \* REST server: the auditLog table, in insertion order
    admitted,       \* requests that rateLimitMiddleware passed on, in order
    exchange        \* the last request served by the chain and what became of it

aggVars      == <<busySnapshot, response, content>>
apiVars      == <<rateLimits, clock, userTable, auditLog, admitted, exchange>>
seedVars     == <<seedVenue, seedNow, seedI, seedCreated, seedProbe>>
fallbackVars == <<fallbackProbe, busyTimesCall>>
liveVars     == <<liveCache, now, inFlight>>
genVars      == <<venueCategory, dayPattern, popularTimes>>
vars         == <<busySnapshot, response, content, seedVenue, seedNow, seedI, seedCreated,
                  seedProbe, fallbackProbe, busyTimesCall, liveCache, now, inFlight,
                  venueCategory, dayPattern, popularTimes, rateLimits, clock, userTable,
                  auditLog, admitted, exchange>>

None == "none"

---------------------------------------------------------------------------
(* Bounds of the model *)

MaxSnapshots == 3

---------------------------------------------------------------------------
(* Program constants *)

HoursPerDay == 24
DaysPerWeek == 7
WindowDays  == 30

---------------------------------------------------------------------------
(* Numbers *)

Max(a, b) == IF a >= b THEN a ELSE b
Min(a, b) == IF a <= b THEN a ELSE b

RECURSIVE Gcd(_, _)
Gcd(a, b) == IF b = 0 THEN a ELSE Gcd(b, a % b)

\* An integer as a JavaScript number
Num(n) == [num |-> n, den |-> 1]

\* n / d, d > 0, n >= 0
Div(n, d) == LET g == Gcd(n, d) IN [num |-> n \div g, den |-> d \div g]

\* a > b on numbers
Gt(a, b) == a.num * b.den > b.num * a.den

\* a rounding that truncates
MathTrunc(x) == x.num \div x.den

\* Math.round: the nearest integer, halves rounded up
MathRound(x) == (2 * x.num + x.den) \div (2 * x.den)

\* Math.floor
MathFloor(x) == x.num \div x.den

---------------------------------------------------------------------------
(* Dates *)

getHours(t) == t % HoursPerDay
getDay(t)   == (t \div HoursPerDay) % DaysPerWeek

\* Date.now() of the requests: a Sunday 00:00, five days after the start of
\* the oldest 30-day window
Now == (WindowDays + 5) * HoursPerDay

thirtyDaysAgo == Now - WindowDays * HoursPerDay

---------------------------------------------------------------------------
(* The venue table and the snapshots that reach the busySnapshot table *)

Capacity == [v \in {"1", "2"} |-> IF v = "1" THEN 230 ELSE 150]
VenueIds == DOMAIN Capacity
RequestIds == VenueIds \cup {"9"}

\* Fri 03:00, Fri 20:00 and Sat 20:00 inside the window
RecentTimestamps == {thirtyDaysAgo + 3, thirtyDaysAgo + 20, thirtyDaysAgo + 44}
\* Thu 03:00, before the window
OldTimestamp == thirtyDaysAgo - 21
Percentages == {70, 90}

\* Math.floor((p / 100) * capacity). The double (p / 100) * capacity falls just
\* below the exact product for the pairs of RoundsBelow (IEEE-754, round to
\* nearest), and equals it for every other p in 0..100 and these capacities.
RoundsBelow == {<<82, 150>>}
occupancyCountOf(p, capacity) ==
    MathFloor(Div(p * capacity, 100)) - (IF <<p, capacity>> \in RoundsBelow THEN 1 ELSE 0)

NoProbe == [status |-> None]

\* the rule with > for >=: 30, 60 and 80 fall into the tier below
statusOfStrict(occupancyPercentage) ==
    IF occupancyPercentage > 80 THEN "VERY_BUSY"
    ELSE IF occupancyPercentage > 60 THEN "BUSY"
    ELSE IF occupancyPercentage > 30 THEN "MODERATE"
    ELSE "QUIET"

\* the 30/60/80 rule of the seed script
statusOf(occupancyPercentage) ==
    IF occupancyPercentage >= 80 THEN "VERY_BUSY"
    ELSE IF occupancyPercentage >= 60 THEN "BUSY"
    ELSE IF occupancyPercentage >= 30 THEN "MODERATE"
    ELSE "QUIET"

\* data of prisma.busySnapshot.create in the seed script
Snapshot(v, t, p) ==
    [venueId |-> v, timestamp |-> t, occupancyPercentage |-> p,
     occupancyCount |-> occupancyCountOf(p, Capacity[v]),
     status |-> statusOf(p), source |-> "seed"]

SnapshotInputs ==
    {Snapshot("1", t, p) : t \in RecentTimestamps, p \in Percentages}
        \cup {Snapshot("1", thirtyDaysAgo + 3, 10),
              Snapshot("1", OldTimestamp, 90),
              Snapshot("2", thirtyDaysAgo + 20, 70)}

\* prisma.busySnapshot.findMany({where: {venueId: id, timestamp: {gte: since}}})
RECURSIVE findMany(_, _, _)
findMany(table, id, since) ==
    IF table = <<>> THEN <<>>
    ELSE LET s == Head(table)
             rest == findMany(Tail(table), id, since)
         IN  IF s.venueId = id /\ s.timestamp >= since THEN <<s>> \o rest ELSE rest


---------------------------------------------------------------------------
(* GET /venues/:id/busy/aggregates *)

EmptyMap == <<>>

ArrayLength(arr) == Cardinality(DOMAIN arr)

\* a bucket that keeps the last percentage as its peak (Math.max forgotten)
hourlyUpdateLastPeak(current, snapshot) ==
    [total |-> current.total + snapshot.occupancyPercentage,
     count |-> current.count + 1,
     peak  |-> snapshot.occupancyPercentage]

\* the body of the first forEach: one snapshot added to its hour's bucket
hourlyUpdate(current, snapshot) ==
    [total |-> current.total + snapshot.occupancyPercentage,
     count |-> current.count + 1,
     peak  |-> Max(current.peak, snapshot.occupancyPercentage)]

\* hourlyData after the forEach over snaps[1..n]
RECURSIVE hourlyData(_, _)
hourlyData(snaps, n) ==
    IF n = 0 THEN EmptyMap
    ELSE LET map == hourlyData(snaps, n - 1)
             snapshot == snaps[n]
             hour == getHours(snapshot.timestamp)
             current == IF hour \in DOMAIN map THEN map[hour]
                        ELSE [total |-> 0, count |-> 0, peak |-> 0]
             updated == hourlyUpdate(current, snapshot)
         IN  [h \in DOMAIN map \cup {hour} |-> IF h = hour THEN updated ELSE map[h]]

\* an entry that divides without looking whether the hour has data: 0 / 0
hourlyEntryUnguarded(map, hour) ==
    LET data == IF hour \in DOMAIN map THEN map[hour]
                ELSE [total |-> 0, count |-> 0, peak |-> 0]
    IN  [hour |-> hour,
         averageOccupancy |-> IF data.count = 0 THEN [num |-> 0, den |-> 0]
                              ELSE Div(data.total, data.count),
         peakOccupancy |-> data.peak]

\* an entry whose average is cut to an integer
hourlyEntryTruncated(map, hour) ==
    [hour |-> hour,
     averageOccupancy |-> IF hour \in DOMAIN map
                          THEN Num(map[hour].total \div map[hour].count) ELSE Num(0),
     peakOccupancy |-> IF hour \in DOMAIN map THEN map[hour].peak ELSE 0]

hourlyEntry(map, hour) ==
    [hour |-> hour,
     averageOccupancy |-> IF hour \in DOMAIN map
                          THEN Div(map[hour].total, map[hour].count) ELSE Num(0),
     peakOccupancy |-> IF hour \in DOMAIN map THEN map[hour].peak ELSE 0]

\* an array of the hours 1..24: its first entry is hour 1, its last has no data
hourlyAveragesOneBased(snaps) ==
    LET map == hourlyData(snaps, Len(snaps))
    IN  [index \in 0 .. HoursPerDay - 1 |-> hourlyEntry(map, index + 1)]

hourlyAverages(snaps) ==
    LET map == hourlyData(snaps, Len(snaps))
    IN  [hour \in 0 .. HoursPerDay - 1 |-> hourlyEntry(map, hour)]

\* dailyData after the forEach over snaps[1..n]
RECURSIVE dailyData(_, _)
dailyData(snaps, n) ==
    IF n = 0 THEN EmptyMap
    ELSE LET map == dailyData(snaps, n - 1)
             snapshot == snaps[n]
             dayOfWeek == getDay(snapshot.timestamp)
             current == IF dayOfWeek \in DOMAIN map THEN map[dayOfWeek]
                        ELSE [total |-> 0, count |-> 0]
             updated == [total |-> current.total + snapshot.occupancyPercentage,
                         count |-> current.count + 1]
         IN  [d \in DOMAIN map \cup {dayOfWeek} |->
                 IF d = dayOfWeek THEN updated ELSE map[d]]

\* a callback that lets a later hour win a tie (>= for >)
peakReducerLastWins(max, curr) ==
    IF ~Gt(max.averageOccupancy, curr.averageOccupancy) THEN curr ELSE max

\* the callback of hourlyAverages.reduce
peakReducer(max, curr) ==
    IF Gt(curr.averageOccupancy, max.averageOccupancy) THEN curr ELSE max

\* arr.reduce(peakReducer) with no initial value, over arr[0..k]
RECURSIVE reducePeak(_, _)
reducePeak(arr, k) ==
    IF k = 0 THEN arr[0] ELSE peakReducer(reducePeak(arr, k - 1), arr[k])

dailyEntry(map, hourly, day) ==
    LET peakHour == reducePeak(hourly, ArrayLength(hourly) - 1)
    IN  [dayOfWeek |-> day,
         averageOccupancy |-> IF day \in DOMAIN map
                              THEN Div(map[day].total, map[day].count) ELSE Num(0),
         peakHour |-> peakHour.hour]

dailyAverages(snaps, hourly) ==
    LET map == dailyData(snaps, Len(snaps))
    IN  [day \in 0 .. DaysPerWeek - 1 |-> dailyEntry(map, hourly, day)]

\* The model serves one request at a time: a request is taken when the
\* response of the one before has been sent. The handlers share no state but
\* the tables.
NoResponse == [route |-> None]

\* res.json has sent the response
ResponseSent ==
    /\ response # NoResponse
    /\ response' = NoResponse
    /\ UNCHANGED <<busySnapshot, content>>

\* a response is kept with the route and the :id of its request
ErrorResponse(route, id, status, message) ==
    [route |-> route, id |-> id, status |-> status, message |-> message]

\* the handler; every requester that passed authMiddleware is served
GetBusyAggregates(id) ==
    /\ response = NoResponse
    /\ response' =
         IF id \notin VenueIds
         THEN ErrorResponse("aggregates", id, 404, "Venue not found")
         ELSE LET snapshots == findMany(busySnapshot, id, thirtyDaysAgo)
                  hourly == hourlyAverages(snapshots)
              IN  [route |-> "aggregates", id |-> id, status |-> 200, venueId |-> id,
                   snapshots |-> snapshots,
                   hourlyAverages |-> hourly,
                   dailyAverages |-> dailyAverages(snapshots, hourly)]
    /\ UNCHANGED <<busySnapshot, content>>

\* a snapshot is ingested while the table has fewer than max rows:
\* prisma.busySnapshot.create
CreateSnapshotUpTo(s, max) ==
    /\ response = NoResponse
    /\ Len(busySnapshot) < max
    /\ busySnapshot' = Append(busySnapshot, s)
    /\ UNCHANGED <<response, content>>

CreateSnapshot(s) == CreateSnapshotUpTo(s, MaxSnapshots)

---------------------------------------------------------------------------
(* GET /venues/:id/analytics/overview *)

\* req.user as authMiddleware attaches it
NoUser == [role |-> None, venueIds |-> <<>>]
CallNext == [next |-> TRUE]
Users ==
    { [id |-> "admin", role |-> "ADMIN", venueIds |-> <<>>],
      [id |-> "manager", role |-> "VENUE_MANAGER", venueIds |-> <<"1", "2">>],
      [id |-> "user", role |-> "USER", venueIds |-> <<>>] }

SeqIncludes(seq, x) == \E i \in 1 .. Len(seq) : seq[i] = x

\* a requireRole that asks for a user only
requireRoleAnyone(allowedRoles, user) ==
    IF user = NoUser THEN [next |-> FALSE, status |-> 401, message |-> "Authentication required"]
    ELSE CallNext

\* requireRole(allowedRoles): "next" or the response it sends
requireRole(allowedRoles, user) ==
    IF user = NoUser THEN [next |-> FALSE, status |-> 401, message |-> "Authentication required"]
    ELSE IF user.role \notin allowedRoles
    THEN [next |-> FALSE, status |-> 403, message |-> "Insufficient permissions"]
    ELSE CallNext

\* requireVenueAccess(venueIdParam): params is the route's req.params
requireVenueAccess(venueIdParam, user, params) ==
    IF user = NoUser THEN [next |-> FALSE, status |-> 401, message |-> "Authentication required"]
    ELSE IF user.role = "ADMIN" THEN CallNext
    ELSE IF user.role = "VENUE_MANAGER"
    THEN IF venueIdParam \notin DOMAIN params
         THEN [next |-> FALSE, status |-> 400, message |-> "Venue ID required"]
         ELSE IF ~SeqIncludes(user.venueIds, params[venueIdParam])
         THEN [next |-> FALSE, status |-> 403, message |-> "No access to this venue"]
         ELSE CallNext
    ELSE CallNext

\* a response of a protected route is kept with the user of its request too
Refusal(route, id, user, status, message) ==
    [route |-> route, id |-> id, user |-> user, status |-> status, message |-> message]

\* snapshots.reduce((sum, s) => sum + s.occupancyCount, 0)
RECURSIVE sumCount(_, _)
sumCount(snaps, n) ==
    IF n = 0 THEN 0 ELSE sumCount(snaps, n - 1) + snaps[n].occupancyCount

\* snapshots.reduce((sum, s) => sum + s.occupancyPercentage, 0)
RECURSIVE sumPercentage(_, _)
sumPercentage(snaps, n) ==
    IF n = 0 THEN 0 ELSE sumPercentage(snaps, n - 1) + snaps[n].occupancyPercentage

totalVisitors(snaps) == sumCount(snaps, Len(snaps))

averageOccupancy(snaps) ==
    IF Len(snaps) > 0 THEN Div(sumPercentage(snaps, Len(snaps)), Len(snaps)) ELSE Num(0)

\* the Map<number, number[]> of the handler, as its entries in insertion order
RECURSIVE hourlyLists(_, _)
hourlyLists(snaps, n) ==
    IF n = 0 THEN <<>>
    ELSE LET entries == hourlyLists(snaps, n - 1)
             hour == getHours(snaps[n].timestamp)
             p == snaps[n].occupancyPercentage
         IN  IF \E i \in 1 .. Len(entries) : entries[i].hour = hour
             THEN [i \in 1 .. Len(entries) |->
                     IF entries[i].hour = hour
                     THEN [hour |-> hour,
                           percentages |-> Append(entries[i].percentages, p)]
                     ELSE entries[i]]
             ELSE Append(entries, [hour |-> hour, percentages |-> <<p>>])

RECURSIVE sumSeq(_)
sumSeq(seq) == IF seq = <<>> THEN 0 ELSE Head(seq) + sumSeq(Tail(seq))

hourAverage(entry) ==
    [hour |-> entry.hour,
     average |-> Div(sumSeq(entry.percentages), Len(entry.percentages))]

\* insert x into a list sorted by (a, b) => b.average - a.average, after its equals
RECURSIVE insertDescending(_, _)
insertDescending(sorted, x) ==
    IF sorted = <<>> THEN <<x>>
    ELSE IF Gt(x.average, Head(sorted).average) THEN <<x>> \o sorted
    ELSE <<Head(sorted)>> \o insertDescending(Tail(sorted), x)

\* the entries in the order of the Map, unsorted
keepOrder(list, n) == [i \in 1 .. n |-> list[i]]

\* Array.prototype.sort with that comparator: stable
RECURSIVE sortDescending(_, _)
sortDescending(list, n) ==
    IF n = 0 THEN <<>> ELSE insertDescending(sortDescending(list, n - 1), list[n])

hourLabel(h) == ToString(h.hour) \o ":00"

peakHours(snaps) ==
    LET entries == hourlyLists(snaps, Len(snaps))
        averages == [i \in 1 .. Len(entries) |-> hourAverage(entries[i])]
        sorted == sortDescending(averages, Len(averages))
        top == SubSeq(sorted, 1, Min(3, Len(sorted)))
    IN  [i \in 1 .. Len(top) |-> hourLabel(top[i])]

\* requireRole, requireVenueAccess, then the handler
GetAnalyticsOverview(user, id) ==
    LET role == requireRole({"VENUE_MANAGER", "ADMIN"}, user)
        access == requireVenueAccess("venueId", user, [id |-> id])
        snapshots == findMany(busySnapshot, id, thirtyDaysAgo)
    IN
    /\ response = NoResponse
    /\ response' =
         IF ~role.next THEN Refusal("overview", id, user, role.status, role.message)
         ELSE IF ~access.next
         THEN Refusal("overview", id, user, access.status, access.message)
         ELSE IF id \notin VenueIds
         THEN Refusal("overview", id, user, 404, "Venue not found")
         ELSE [route |-> "overview", id |-> id, user |-> user, status |-> 200,
               venueId |-> id,
               snapshots |-> snapshots,
               totalVisitors |-> totalVisitors(snapshots),
               averageOccupancy |-> MathRound(averageOccupancy(snapshots)),
               peakHours |-> peakHours(snapshots)]
    /\ UNCHANGED <<busySnapshot, content>>

---------------------------------------------------------------------------
(* POST /venues/:id/deals, /events, /posts *)

\* most rows of the deal, event and post tables
MaxContent == 2

\* request bodies: one that passes its schema, one that does not
DealBodies ==
    {[title |-> "t", description |-> "d", validFrom |-> 1, validUntil |-> 2],
     [title |-> "t", description |-> "d", validFrom |-> 2, validUntil |-> 2]}
EventBodies ==
    {[title |-> "t", description |-> "d", startTime |-> 1, endTime |-> 2,
      eventType |-> "e"],
     [title |-> "t", description |-> "d", startTime |-> 1, endTime |-> 2]}
PostBodies == {[content |-> "c"], [content |-> ""]}

NoError == [error |-> FALSE]
ValidationError(message) == [error |-> TRUE, message |-> message]

\* the required keys of a schema, first the one missing from data if any
RECURSIVE required(_, _)
required(keys, data) ==
    IF keys = <<>> THEN NoError
    ELSE IF Head(keys) \notin DOMAIN data THEN ValidationError("\"" \o Head(keys) \o "\" is required")
    ELSE required(Tail(keys), data)

validateCreateDeal(data) ==
    LET missing == required(<<"title", "description", "validFrom", "validUntil">>, data)
    IN  IF missing.error THEN missing
        ELSE IF ~(data.validUntil > data.validFrom)
        THEN ValidationError("\"validUntil\" must be greater than \"ref:validFrom\"")
        ELSE NoError

validateCreateEvent(data) ==
    LET missing == required(<<"title", "description", "startTime", "endTime", "eventType">>,
                            data)
    IN  IF missing.error THEN missing
        ELSE IF ~(data.endTime > data.startTime)
        THEN ValidationError("\"endTime\" must be greater than \"ref:startTime\"")
        ELSE NoError

validateCreatePost(data) ==
    LET missing == required(<<"content">>, data)
    IN  IF missing.error THEN missing
        ELSE IF data.content = "" THEN ValidationError("\"content\" is not allowed to be empty")
        ELSE NoError

\* the three routes run requireRole, requireVenueAccess() and then the handler:
\* validation, prisma.<table>.create, 201. A venueId that is no venue fails
\* the foreign key (P2003), which the error handler answers 400.
createContent(route, table, owner, validation, user, id, body) ==
    LET role == requireRole({"VENUE_MANAGER", "ADMIN"}, user)
        access == requireVenueAccess("venueId", user, [id |-> id])
        row == [table |-> table, venueId |-> id, data |-> body] @@ (owner :> user.id)
    IN
    /\ response = NoResponse
    /\ Len(content) < MaxContent
    /\ IF ~role.next
       THEN /\ response' = Refusal(route, id, user, role.status, role.message)
                               @@ [body |-> body]
            /\ UNCHANGED content
       ELSE IF ~access.next
       THEN /\ response' = Refusal(route, id, user, access.status, access.message)
                               @@ [body |-> body]
            /\ UNCHANGED content
       ELSE IF validation.error
       THEN /\ response' = Refusal(route, id, user, 400, validation.message)
                               @@ [body |-> body]
            /\ UNCHANGED content
       ELSE IF id \notin VenueIds
       THEN /\ response' = Refusal(route, id, user, 400, "Foreign key constraint failed")
                               @@ [body |-> body]
            /\ UNCHANGED content
       ELSE /\ response' = [route |-> route, id |-> id, user |-> user, status |-> 201,
                            body |-> body, created |-> row]
            /\ content' = Append(content, row)
    /\ UNCHANGED busySnapshot

CreateDeal(user, id, body) ==
    createContent("deals", "deal", "createdById", validateCreateDeal(body), user, id, body)

CreateEvent(user, id, body) ==
    createContent("events", "event", "createdById", validateCreateEvent(body), user, id, body)

CreatePost(user, id, body) ==
    createContent("posts", "post", "authorId", validateCreatePost(body), user, id, body)


\* request bodies of POST /venues and PUT /venues/:id: one with every required
\* key of createVenueSchema, one with a name alone
VenueBodies ==
    {[name |-> "n", category |-> "Bar", location |-> "l", latitude |-> 0, longitude |-> 0,
      capacity |-> 100, priceRange |-> "$", openingHours |-> "o"],
     [name |-> "n"]}

validateCreateVenue(data) ==
    required(<<"name", "category", "location", "latitude", "longitude", "capacity",
               "priceRange", "openingHours">>, data)

\* updateVenueSchema makes the required keys optional
validateUpdateVenue(data) == NoError

\* POST /venues
CreateVenue(user, body) ==
    LET role == requireRole({"ADMIN"}, user)
        validation == validateCreateVenue(body)
    IN
    /\ response = NoResponse
    /\ Len(content) < MaxContent
    /\ IF ~role.next
       THEN /\ response' = Refusal("venues", None, user, role.status, role.message)
                               @@ [body |-> body]
            /\ UNCHANGED content
       ELSE IF validation.error
       THEN /\ response' = Refusal("venues", None, user, 400, validation.message)
                               @@ [body |-> body]
            /\ UNCHANGED content
       ELSE LET row == [table |-> "venue", write |-> "create", data |-> body]
            IN  /\ response' = [route |-> "venues", id |-> None, user |-> user,
                                status |-> 201, body |-> body, created |-> row]
                /\ content' = Append(content, row)
    /\ UNCHANGED busySnapshot

\* PUT /venues/:id; an id that is no venue fails the update (P2025), which
\* the error handler answers 404
UpdateVenue(user, id, body) ==
    LET role == requireRole({"ADMIN"}, user)
        validation == validateUpdateVenue(body)
    IN
    /\ response = NoResponse
    /\ Len(content) < MaxContent
    /\ IF ~role.next
       THEN /\ response' = Refusal("venue", id, user, role.status, role.message)
                               @@ [body |-> body]
            /\ UNCHANGED content
       ELSE IF validation.error
       THEN /\ response' = Refusal("venue", id, user, 400, validation.message)
                               @@ [body |-> body]
            /\ UNCHANGED content
       ELSE IF id \notin VenueIds
       THEN /\ response' = Refusal("venue", id, user, 404, "The requested record was not found")
                               @@ [body |-> body]
            /\ UNCHANGED content
       ELSE LET row == [table |-> "venue", write |-> "update", venueId |-> id,
                        data |-> body]
            IN  /\ response' = [route |-> "venue", id |-> id, user |-> user,
                                status |-> 200, body |-> body, created |-> row]
                /\ content' = Append(content, row)
    /\ UNCHANGED busySnapshot

---------------------------------------------------------------------------
(* The seed script: main's loop over venuesData and over the last 24 hours *)

venuesData == <<"1", "2">>

SeedHours == 24

\* `now` of the seed run: Sunday 00:00, 07:00, 13:00 or 19:00
SeedNows == {Now, Now + 7, Now + 13, Now + 19}

\* Math.floor(Math.random() * n)
RandomBelow(n) == 0 .. n - 1

\* the values occupancyPercentage can take at `hour`
seedPercentages(hour) ==
    IF hour >= 18 /\ hour <= 23 THEN {r + 60 : r \in RandomBelow(30)}
    ELSE IF hour >= 12 /\ hour <= 17 THEN {r + 30 : r \in RandomBelow(30)}
    ELSE IF hour >= 0 /\ hour <= 2 THEN {r + 40 : r \in RandomBelow(40)}
    ELSE {r + 10 : r \in RandomBelow(20)}

SeedBeginVenue ==
    /\ seedProbe = NoProbe
    /\ seedVenue < Len(venuesData)
    /\ seedVenue = 0 \/ seedI = SeedHours
    /\ seedVenue' = seedVenue + 1
    /\ seedNow' \in SeedNows
    /\ seedI' = 0
    /\ UNCHANGED <<seedCreated, seedProbe>>

SeedCreateSnapshot ==
    /\ seedVenue >= 1
    /\ seedI < SeedHours
    /\ LET timestamp == seedNow - seedI
           hour == getHours(timestamp)
       IN  \E occupancyPercentage \in seedPercentages(hour) :
              seedCreated' = Snapshot(venuesData[seedVenue], timestamp, occupancyPercentage)
    /\ seedI' = seedI + 1
    /\ UNCHANGED <<seedVenue, seedNow, seedProbe>>

\* the seed script's rule applied to a percentage, examined on its own: in
\* a run of the model either the script runs or its rule is examined
ProbePercentages == 0 .. 100

SeedClassify(p) ==
    /\ seedVenue = 0
    /\ seedProbe' = [occupancyPercentage |-> p, status |-> statusOf(p)]
    /\ UNCHANGED <<seedVenue, seedNow, seedI, seedCreated>>

---------------------------------------------------------------------------
(* The fallback server (backend.js) *)

\* the fallback rule brought to the 30/60/80 tiers of the seed script
statusFromOccupancyTiers(pct) ==
    IF pct >= 80 THEN "VERY_BUSY"
    ELSE IF pct >= 60 THEN "BUSY"
    ELSE IF pct >= 30 THEN "MODERATE"
    ELSE IF pct > 0 THEN "QUIET"
    ELSE "UNKNOWN"

statusFromOccupancy(pct) ==
    IF pct >= 75 THEN "VERY_BUSY"
    ELSE IF pct >= 40 THEN "BUSY"
    ELSE IF pct > 0 THEN "QUIET"
    ELSE "UNKNOWN"

FallbackPercentages == -5 .. 105

FallbackClassify(pct) ==
    /\ fallbackProbe' = [pct |-> pct, status |-> statusFromOccupancy(pct)]
    /\ UNCHANGED busyTimesCall

hours ==
    <<"10AM", "11AM", "12PM", "1PM", "2PM", "3PM", "4PM", "5PM",
      "6PM", "7PM", "8PM", "9PM", "10PM", "11PM", "12AM", "1AM", "2AM", "3AM">>

\* Math.random() * 10 - 5 lies in [-5, 5); a draw is counted in halves, so
\* that -10 is -5.0 and 9 is 4.5
Jitters == -10 .. 9

\* the draws of one generateBusyTimes call, one per point; over the twenty
\* runs every point meets every draw
JitterRun(k) == [idx \in 0 .. Len(hours) - 1 |-> ((k + 3 * idx) % 20) - 10]
JitterRuns == {JitterRun(k) : k \in 0 .. 19}

\* const base = idx < 8 ? 10 + idx * 2 : 20 + (idx - 8) * 10
basePercentage(idx) == IF idx < 8 THEN 10 + idx * 2 ELSE 20 + (idx - 8) * 10

\* the callback of hours.map
busyPoint(idx, jitter) ==
    [hour |-> hours[idx + 1],
     percentage |-> Max(0, Min(100, MathRound(Div(2 * basePercentage(idx) + jitter, 2)))),
     isPredicted |-> FALSE]

generateBusyTimes(run) == [idx \in 0 .. Len(hours) - 1 |-> busyPoint(idx, run[idx])]

GenerateBusyTimes(run) ==
    /\ busyTimesCall' = [called |-> TRUE, run |-> run, busyTimes |-> generateBusyTimes(run)]
    /\ UNCHANGED fallbackProbe

\* data/venues.json as readJSON returns it: a venue with a capacity and one
\* without
venuesJson == [venues |-> <<[id |-> "1", capacity |-> 230], [id |-> "2"]>>]

\* a find that falls back on the first venue
findVenueOrFirst(data, id) ==
    IF \E k \in 1 .. Len(data.venues) : data.venues[k].id = id
    THEN CHOOSE k \in 1 .. Len(data.venues) :
             /\ data.venues[k].id = id
             /\ \A j \in 1 .. k - 1 : data.venues[j].id # id
    ELSE 1

\* data.venues.find(v => v.id === id): the index of the first such venue, 0
\* when find yields undefined
findVenue(data, id) ==
    IF \E k \in 1 .. Len(data.venues) : data.venues[k].id = id
    THEN CHOOSE k \in 1 .. Len(data.venues) :
             /\ data.venues[k].id = id
             /\ \A j \in 1 .. k - 1 : data.venues[j].id # id
    ELSE 0

\* live data read off the first point of the curve
computeLiveDataFromFirstPoint(venue, run) ==
    LET busyTimes == generateBusyTimes(run)
        lastPoint == busyTimes[0]
        numericCapacity == "capacity" \in DOMAIN venue
        currentOccupancy ==
            IF numericCapacity
            THEN Min(venue.capacity,
                     MathRound(Div(venue.capacity * lastPoint.percentage, 100)))
            ELSE MathRound(Div(200 * lastPoint.percentage, 100))
        currentPct ==
            IF numericCapacity /\ venue.capacity > 0
            THEN MathRound(Div(currentOccupancy * 100, venue.capacity))
            ELSE lastPoint.percentage
    IN  [currentStatus |-> statusFromOccupancy(currentPct),
         currentOccupancy |-> currentOccupancy,
         busyTimes |-> busyTimes]

computeLiveDataForVenue(venue, run) ==
    LET busyTimes == generateBusyTimes(run)
        lastPoint == busyTimes[Max(0, Len(hours) - 1)]
        numericCapacity == "capacity" \in DOMAIN venue
        currentOccupancy ==
            IF numericCapacity
            THEN Min(venue.capacity,
                     MathRound(Div(venue.capacity * lastPoint.percentage, 100)))
            ELSE MathRound(Div(200 * lastPoint.percentage, 100))
        currentPct ==
            IF numericCapacity /\ venue.capacity > 0
            THEN MathRound(Div(currentOccupancy * 100, venue.capacity))
            ELSE lastPoint.percentage
    IN  [currentStatus |-> statusFromOccupancy(currentPct),
         currentOccupancy |-> currentOccupancy,
         busyTimes |-> busyTimes]

\* the venues handed to computeLiveDataForVenue: those of venues.json and
\* venues of capacity 0, 1, 75 and 150
LiveVenues ==
    {venuesJson.venues[k] : k \in 1 .. Len(venuesJson.venues)}
        \cup {[id |-> "3", capacity |-> 0], [id |-> "4", capacity |-> 1],
              [id |-> "5", capacity |-> 75], [id |-> "6", capacity |-> 150]}

\* a call of computeLiveDataForVenue, kept with the busyTimes it generated
ComputeLiveDataForVenue(venue, run) ==
    /\ LET liveData == computeLiveDataForVenue(venue, run)
       IN  busyTimesCall' = [called |-> TRUE, run |-> run, busyTimes |-> liveData.busyTimes,
                             venue |-> venue, liveData |-> liveData]
    /\ UNCHANGED fallbackProbe

\* CACHE_TTL_SECONDS is left unset
stdTTL == 300

\* a key without the prefix
cacheKeyBare(id) == id

\* const cacheKey = `live:${id}`
cacheKey(id) == "live:" \o id

\* NodeCache keeps an entry until Date.now() is past its expiry t
cacheHas(cache, key, time) == \E e \in cache : e.key = key /\ ~(e.t < time)

\* liveCache.get(key) of a key it has
cacheGet(cache, key, time) == (CHOOSE e \in cache : e.key = key /\ ~(e.t < time)).v

\* a set that gives the entry twice the TTL
cacheSetLong(cache, key, v, time) ==
    {e \in cache : e.key # key} \cup {[key |-> key, v |-> v, t |-> time + 2 * stdTTL]}

\* liveCache.set(key, v): the key's entry is replaced
cacheSet(cache, key, v, time) ==
    {e \in cache : e.key # key} \cup {[key |-> key, v |-> v, t |-> time + stdTTL]}

\* a get deletes the entry it finds expired
cacheExpire(cache, key, time) == {e \in cache : ~(e.key = key /\ e.t < time)}

\* a lookup that does not look: it computes and stores whatever the cache holds
liveDataForUncached(cache, venue, run, time) ==
    LET key == cacheKey(venue.id)
        liveData == computeLiveDataForVenue(venue, run)
    IN  [cache |-> cacheSet(cache, key, liveData, time),
         liveData |-> liveData, computed |-> {key}]

\* let liveData = liveCache.get(cacheKey); if (!liveData) { compute; set }:
\* the cache afterwards, the live data, and whether it was computed
liveDataFor(cache, venue, run, time) ==
    LET key == cacheKey(venue.id)
    IN  IF cacheHas(cache, key, time)
        THEN [cache |-> cache, liveData |-> cacheGet(cache, key, time), computed |-> {}]
        ELSE LET liveData == computeLiveDataForVenue(venue, run)
             IN  [cache |-> cacheSet(cacheExpire(cache, key, time), key, liveData, time),
                  liveData |-> liveData, computed |-> {key}]

\* GET /api/venues/:id/live: the cache afterwards and the response
getLive(cache, id, run, time) ==
    LET data == venuesJson
        k == findVenue(data, id)
    IN  IF k = 0
        THEN [cache |-> cache,
              response |-> [status |-> 404, body |-> [error |-> "Venue not found"],
                            computed |-> {}]]
        ELSE LET venue == data.venues[k]
                 found == liveDataFor(cache, venue, run, time)
             IN  [cache |-> found.cache,
                  response |-> [status |-> 200,
                                body |-> [venueId |-> venue.id,
                                          liveData |-> found.liveData,
                                          lastUpdated |-> time],
                                computed |-> found.computed]]

\* a batch that ends at the first id that is no venue
RECURSIVE batchResultsStopAtUnknown(_, _, _, _, _)
batchResultsStopAtUnknown(cache, venueIds, k, runs, time) ==
    IF k > Len(venueIds) THEN [cache |-> cache, results |-> <<>>, computed |-> {}]
    ELSE LET data == venuesJson
             id == venueIds[k]
             j == findVenue(data, id)
         IN  IF j = 0 THEN [cache |-> cache, results |-> <<>>, computed |-> {}]
             ELSE LET found == liveDataFor(cache, data.venues[j], runs[k], time)
                      rest == batchResultsStopAtUnknown(found.cache, venueIds, k + 1,
                                                        runs, time)
                  IN  [cache |-> rest.cache,
                       results |-> <<[venueId |-> id, liveData |-> found.liveData]>>
                                       \o rest.results,
                       computed |-> found.computed \cup rest.computed]

\* venueIds.map(...).filter(Boolean) from the k-th id on: the cache afterwards,
\* the results, and the keys computed
RECURSIVE batchResults(_, _, _, _, _)
batchResults(cache, venueIds, k, runs, time) ==
    IF k > Len(venueIds) THEN [cache |-> cache, results |-> <<>>, computed |-> {}]
    ELSE LET data == venuesJson
             id == venueIds[k]
             j == findVenue(data, id)
         IN  IF j = 0 THEN batchResults(cache, venueIds, k + 1, runs, time)
             ELSE LET found == liveDataFor(cache, data.venues[j], runs[k], time)
                      rest == batchResults(found.cache, venueIds, k + 1, runs, time)
                  IN  [cache |-> rest.cache,
                       results |-> <<[venueId |-> id, liveData |-> found.liveData]>>
                                       \o rest.results,
                       computed |-> found.computed \cup rest.computed]

\* POST /api/venues/live-batch
postLiveBatch(cache, body, runs, time) ==
    IF "venueIds" \notin DOMAIN body
    THEN [cache |-> cache,
          response |-> [status |-> 400,
                        body |-> [error |-> "Body must include { venueIds: string[] }"],
                        computed |-> {}]]
    ELSE LET batch == batchResults(cache, body.venueIds, 1, runs, time)
         IN  [cache |-> batch.cache,
              response |-> [status |-> 200,
                            body |-> [results |-> batch.results, lastUpdated |-> time],
                            computed |-> batch.computed]]

\* the end of time
MaxTime == 451

\* the time between two events: half the TTL, the TTL, or a second more
Delays == {stdTTL \div 2, stdTTL, stdTTL + 1}

\* the draws the live routes meet
LiveRuns == {JitterRun(0), JitterRun(10)}

\* venueIds of a batch: none, unknown ids, known ones, both, an id twice
BatchLists ==
    {<<>>, <<"9">>, <<"1">>, <<"1", "2">>, <<"9", "1">>, <<"1", "9", "2">>,
     <<"1", "1">>, <<"2", "9", "2">>}

\* the most ids of a batch
BatchLength ==
    Len(CHOOSE l \in BatchLists : \A m \in BatchLists : Len(m) <= Len(l))

\* a body without venueIds
EmptyBody == [other |-> "x"]

Requests ==
    {[route |-> "live", id |-> id] : id \in RequestIds}
        \cup {[route |-> "live-batch", body |-> [venueIds |-> l]] : l \in BatchLists}
        \cup {[route |-> "live-batch", body |-> EmptyBody]}

\* the requests of two clients after the live data of venue "1", one of them
\* a batch that also names an id that is no venue
RaceRequests ==
    {[route |-> "live", id |-> "1"],
     [route |-> "live-batch", body |-> [venueIds |-> <<"1">>]],
     [route |-> "live-batch", body |-> [venueIds |-> <<"9", "1">>]]}

\* the clients, each with one request in flight at most
Clients == {"c1", "c2"}
FirstClient == "c1"

Idle == [state |-> "idle"]

\* a request of client c arrives
Receive(c, request) ==
    /\ inFlight[c] = Idle
    /\ inFlight' = [inFlight EXCEPT
                       ![c] = [state |-> "pending", request |-> request, arrived |-> now]]
    /\ UNCHANGED <<liveCache, now>>

\* the handler of a request runs, from its first statement to its last: it
\* awaits nothing, so no other handler runs in between. The answer is kept
\* with the clients whose requests were waiting meanwhile.
Handle(c, runs) ==
    /\ inFlight[c].state = "pending"
    /\ LET request == inFlight[c].request
           served == IF request.route = "live"
                     THEN getLive(liveCache, request.id, runs[1], now)
                     ELSE postLiveBatch(liveCache, request.body, runs, now)
       IN  /\ liveCache' = served.cache
           /\ inFlight' = [inFlight EXCEPT
                              ![c] = [state |-> "answered", request |-> request,
                                      arrived |-> inFlight[c].arrived,
                                      beside |-> {d \in Clients \ {c} :
                                                     inFlight[d].state = "pending"},
                                      response |-> served.response]]
    /\ UNCHANGED now

\* a response reaches its client, whose request is in flight no more
Deliver(c) ==
    /\ inFlight[c].state = "answered"
    /\ inFlight' = [d \in Clients |->
                        IF d = c THEN Idle
                        ELSE IF inFlight[d].state = "answered"
                        THEN [inFlight[d] EXCEPT !.beside = @ \ {c}]
                        ELSE inFlight[d]]
    /\ UNCHANGED <<liveCache, now>>

\* time passes
Tick(d) ==
    /\ now + d <= MaxTime
    /\ now' = now + d
    /\ UNCHANGED <<liveCache, inFlight>>

\* NodeCache's periodic check deletes what has expired
CheckData ==
    /\ \E e \in liveCache : e.t < now
    /\ liveCache' = {e \in liveCache : ~(e.t < now)}
    /\ UNCHANGED <<now, inFlight>>

---------------------------------------------------------------------------
(* SerpAPIService: the synthetic popular-times generator *)

\* venue categories: those of the seed data, one per branch, mixed ones, and
\* the empty string
Categories ==
    { <<"L", "a", "t", "i", "n", " ", "B", "a", "r", " ", "&", " ", "N", "i", "g", "h", "t", "c", "l", "u", "b">>,
      <<"C", "o", "c", "k", "t", "a", "i", "l", " ", "B", "a", "r">>,
      <<"P", "u", "b", " ", "&", " ", "L", "i", "v", "e", " ", "M", "u", "s", "i", "c">>,
      <<"R", "e", "s", "t", "a", "u", "r", "a", "n", "t">>,
      <<"C", "a", "f", "e">>,
      <<"C", "a", "f", "e", " ", "R", "e", "s", "t", "a", "u", "r", "a", "n", "t">>,
      <<"R", "e", "s", "t", "a", "u", "r", "a", "n", "t", " ", "&", " ", "B", "a", "r">>,
      <<"C", "a", "f", "e", " ", "B", "a", "r">>,
      <<"N", "I", "G", "H", "T", "C", "L", "U", "B">>,
      <<"L", "a", "u", "n", "d", "r", "o", "m", "a", "t">>,
      <<>> }

\* null, a value of its own: every string is a sequence of one-character
\* strings, which this is not
null == <<"null">>

\* what a caller can hand over as a venue's category
CategoryInputs == Categories \cup {null}

\* category.toLowerCase() raises a TypeError when category is null
toLowerCaseThrows(category) == category = null

LowerOf ==
        "A" :> "a" @@ "B" :> "b" @@ "C" :> "c" @@ "D" :> "d" @@ "E" :> "e" @@ "F" :> "f"
        @@ "G" :> "g" @@ "H" :> "h" @@ "I" :> "i" @@ "J" :> "j" @@ "K" :> "k" @@ "L" :> "l"
        @@ "M" :> "m" @@ "N" :> "n" @@ "O" :> "o" @@ "P" :> "p" @@ "Q" :> "q" @@ "R" :> "r"
        @@ "S" :> "s" @@ "T" :> "t" @@ "U" :> "u" @@ "V" :> "v" @@ "W" :> "w" @@ "X" :> "x"
        @@ "Y" :> "y" @@ "Z" :> "z"

\* String.prototype.toLowerCase
toLowerCase(str) ==
    [i \in 1 .. Len(str) |-> IF str[i] \in DOMAIN LowerOf THEN LowerOf[str[i]] ELSE str[i]]

\* String.prototype.includes
includes(str, search) ==
    \E i \in 1 .. Len(str) - Len(search) + 1 :
        \A j \in 1 .. Len(search) : str[i + j - 1] = search[j]

\* the bar curve with the early evening left at its weekday value
calculateBarPopularityFlatEvening(hour, isWeekend, isFriday) ==
    IF hour \in 0 .. 5 THEN (IF isWeekend \/ isFriday THEN 30 ELSE 10)
    ELSE IF hour \in 6 .. 11 THEN 5
    ELSE IF hour \in 12 .. 16 THEN (IF isWeekend THEN 35 ELSE 20)
    ELSE IF hour \in 17 .. 19 THEN 50
    ELSE IF hour \in 20 .. 22 THEN (IF isWeekend \/ isFriday THEN 90 ELSE 75)
    ELSE IF hour = 23 THEN (IF isWeekend \/ isFriday THEN 95 ELSE 70)
    ELSE 15

calculateBarPopularity(hour, isWeekend, isFriday) ==
    IF hour \in 0 .. 5 THEN (IF isWeekend \/ isFriday THEN 30 ELSE 10)
    ELSE IF hour \in 6 .. 11 THEN 5
    ELSE IF hour \in 12 .. 16 THEN (IF isWeekend THEN 35 ELSE 20)
    ELSE IF hour \in 17 .. 19 THEN (IF isWeekend THEN 65 ELSE 50)
    ELSE IF hour \in 20 .. 22 THEN (IF isWeekend \/ isFriday THEN 90 ELSE 75)
    ELSE IF hour = 23 THEN (IF isWeekend \/ isFriday THEN 95 ELSE 70)
    ELSE 15

calculateRestaurantPopularity(hour, isWeekend) ==
    IF hour \in 0 .. 6 THEN 5
    ELSE IF hour \in 7 .. 9 THEN (IF isWeekend THEN 45 ELSE 35)
    ELSE IF hour \in 10 .. 11 THEN 20
    ELSE IF hour \in 12 .. 14 THEN 85
    ELSE IF hour \in 15 .. 17 THEN 30
    ELSE IF hour \in 18 .. 20 THEN (IF isWeekend THEN 95 ELSE 80)
    ELSE IF hour \in 21 .. 22 THEN (IF isWeekend THEN 65 ELSE 45)
    ELSE 10

calculateCafePopularity(hour, isWeekend) ==
    IF hour \in 0 .. 6 THEN 5
    ELSE IF hour \in 7 .. 9 THEN (IF isWeekend THEN 60 ELSE 80)
    ELSE IF hour \in 10 .. 11 THEN 50
    ELSE IF hour \in 12 .. 14 THEN 65
    ELSE IF hour \in 15 .. 17 THEN 45
    ELSE IF hour \in 18 .. 20 THEN 30
    ELSE 10

calculateGenericPopularity(hour, isWeekend) ==
    IF hour >= 0 /\ hour <= 7 THEN 15
    ELSE IF hour >= 8 /\ hour <= 11 THEN 45
    ELSE IF hour >= 12 /\ hour <= 17 THEN 70
    ELSE IF hour >= 18 /\ hour <= 22 THEN (IF isWeekend THEN 80 ELSE 60)
    ELSE 25

\* the chain with the restaurant test before the bar test
popularityOfRestaurantFirst(categoryLower, hour, isWeekend, isFriday) ==
    IF includes(categoryLower, <<"r", "e", "s", "t", "a", "u", "r", "a", "n", "t">>)
    THEN calculateRestaurantPopularity(hour, isWeekend)
    ELSE IF includes(categoryLower, <<"b", "a", "r">>)
              \/ includes(categoryLower, <<"n", "i", "g", "h", "t", "c", "l", "u", "b">>)
    THEN calculateBarPopularity(hour, isWeekend, isFriday)
    ELSE IF includes(categoryLower, <<"c", "a", "f", "e">>)
    THEN calculateCafePopularity(hour, isWeekend)
    ELSE calculateGenericPopularity(hour, isWeekend)

\* the body of generateDayPattern's loop: the popularity of one hour
popularityOf(categoryLower, hour, isWeekend, isFriday) ==
    IF includes(categoryLower, <<"b", "a", "r">>)
         \/ includes(categoryLower, <<"n", "i", "g", "h", "t", "c", "l", "u", "b">>)
    THEN calculateBarPopularity(hour, isWeekend, isFriday)
    ELSE IF includes(categoryLower, <<"r", "e", "s", "t", "a", "u", "r", "a", "n", "t">>)
    THEN calculateRestaurantPopularity(hour, isWeekend)
    ELSE IF includes(categoryLower, <<"c", "a", "f", "e">>)
    THEN calculateCafePopularity(hour, isWeekend)
    ELSE calculateGenericPopularity(hour, isWeekend)

\* a loop over the hours 1..24: index 0 keeps the 0 of fill(0), index 24 is added
generateDayPatternFromOne(category, dayOfWeek) ==
    LET isWeekend == dayOfWeek = 6 \/ dayOfWeek = 7
        isFriday == dayOfWeek = 6
        categoryLower == toLowerCase(category)
    IN  [hour \in 0 .. HoursPerDay |->
            IF hour = 0 THEN 0
            ELSE Max(0, Min(100, popularityOf(categoryLower, hour, isWeekend, isFriday)))]

generateDayPattern(category, dayOfWeek) ==
    LET isWeekend == dayOfWeek = 6 \/ dayOfWeek = 7
        isFriday == dayOfWeek = 6
        categoryLower == toLowerCase(category)
    IN  [hour \in 0 .. HoursPerDay - 1 |->
            Max(0, Min(100, popularityOf(categoryLower, hour, isWeekend, isFriday)))]

dayNames ==
    <<"Monday", "Tuesday", "Wednesday", "Thursday", "Friday", "Saturday", "Sunday">>

generateEstimatedPopularTimes(category) ==
    LET weeklyData == [dayName \in {dayNames[k] : k \in 1 .. Len(dayNames)} |->
                          LET dayOfWeek == CHOOSE k \in 1 .. Len(dayNames) :
                                               dayNames[k] = dayName
                          IN  generateDayPattern(category, dayOfWeek)]
    IN  [graph_results |-> [data |-> weeklyData]]

\* days handed to generateDayPattern: 1..7 by generateEstimatedPopularTimes,
\* 0..6 by a caller counting from Sunday
DaysOfWeek == 0 .. 7

\* a call that raises leaves no curve behind
GenerateDayPattern(dayOfWeek) ==
    /\ dayPattern' =
          IF toLowerCaseThrows(venueCategory)
          THEN [called |-> TRUE, threw |-> TRUE, dayOfWeek |-> dayOfWeek]
          ELSE [called |-> TRUE, threw |-> FALSE, dayOfWeek |-> dayOfWeek,
                hourlyData |-> generateDayPattern(venueCategory, dayOfWeek)]
    /\ UNCHANGED <<venueCategory, popularTimes>>

\* the first generateDayPattern of the forEach raises, and nothing catches it
GenerateEstimatedPopularTimes ==
    /\ popularTimes' =
          IF toLowerCaseThrows(venueCategory)
          THEN [called |-> TRUE, threw |-> TRUE]
          ELSE [called |-> TRUE, threw |-> FALSE,
                result |-> generateEstimatedPopularTimes(venueCategory)]
    /\ UNCHANGED <<venueCategory, dayPattern>>

---------------------------------------------------------------------------
(* The REST server's middleware chain: rateLimitMiddleware, auditLogger,   *)
(* the auth routes, authMiddleware and DELETE /users/me.                   *)
(* Times of this chain are whole seconds on the server's clock.            *)

\* String.prototype.startsWith
startsWith(str, prefix) ==
    /\ Len(prefix) <= Len(str)
    /\ \A i \in 1 .. Len(prefix) : str[i] = prefix[i]

\* the paths of the requests, character by character
PathAuth    == <<"/", "a", "u", "t", "h">>
PathVenues  == <<"/", "v", "e", "n", "u", "e", "s">>
PathUsers   == <<"/", "u", "s", "e", "r", "s">>
PathSignin  == PathAuth \o <<"/", "s", "i", "g", "n", "i", "n">>
PathSignout == PathAuth \o <<"/", "s", "i", "g", "n", "o", "u", "t">>
PathSignup  == PathAuth \o <<"/", "s", "i", "g", "n", "u", "p">>
PathRefresh == PathAuth \o <<"/", "r", "e", "f", "r", "e", "s", "h">>
PathUsersMe == PathUsers \o <<"/", "m", "e">>
PathHealth  == <<"/", "h", "e", "a", "l", "t", "h">>
PathStatus  == <<"/", "s", "t", "a", "t", "u", "s">>

\* the three RateLimiterMemory instances
authLimiter == [keyPrefix |-> "auth", points |-> 5, duration |-> 900, blockDuration |-> 900]
apiLimiter == [keyPrefix |-> "api", points |-> 100, duration |-> 900, blockDuration |-> 60]
createAccountLimiter ==
    [keyPrefix |-> "create_account", points |-> 3, duration |-> 3600, blockDuration |-> 3600]

\* limiter.consume(key): one point more on the key's record, a fresh record
\* of `duration` seconds when the key has none left; the consume that first
\* exceeds `points` blocks the key for `blockDuration` seconds from then on
consume(limits, limiter, key, time) ==
    LET mine(e) == e.limiter = limiter.keyPrefix /\ e.key = key
        live == {e \in limits : mine(e) /\ time < e.expiresAt}
        res == IF live = {}
               THEN [limiter |-> limiter.keyPrefix, key |-> key, consumedPoints |-> 1,
                     expiresAt |-> time + limiter.duration]
               ELSE LET e == CHOOSE e \in live : TRUE
                    IN  [e EXCEPT !.consumedPoints = @ + 1]
        kept == IF /\ res.consumedPoints > limiter.points
                   /\ limiter.blockDuration > 0
                   /\ res.consumedPoints <= limiter.points + 1
                THEN [res EXCEPT !.expiresAt = time + limiter.blockDuration]
                ELSE res
    IN  [limits |-> {e \in limits : ~mine(e)} \cup {kept},
         resolved |-> res.consumedPoints <= limiter.points,
         msBeforeNext |-> (kept.expiresAt - time) * 1000]

\* the limiter a path is counted by
limiterOf(path) ==
    IF startsWith(path, PathSignin) \/ startsWith(path, PathSignout) THEN authLimiter
    ELSE IF startsWith(path, PathSignup) THEN createAccountLimiter
    ELSE apiLimiter

TooManyMessage(limiter) ==
    IF limiter = authLimiter THEN "Too many authentication attempts. Please try again later."
    ELSE IF limiter = createAccountLimiter
    THEN "Too many account creation attempts. Please try again later."
    ELSE "API rate limit exceeded. Please slow down."

\* rateLimitMiddleware: next() or the 429 it sends
rateLimitMiddleware(limits, req, time) ==
    LET key == req.ip
        limiter == limiterOf(req.path)
        consumed == consume(limits, limiter, key, time)
        rounded == MathRound(Div(consumed.msBeforeNext, 1000))
        secs == IF rounded = 0 THEN 1 ELSE rounded
    IN  IF consumed.resolved
        THEN [limits |-> consumed.limits, next |-> TRUE]
        ELSE [limits |-> consumed.limits, next |-> FALSE,
              response |-> [status |-> 429, error |-> "Too Many Requests",
                            message |-> TooManyMessage(limiter),
                            retryAfter |-> secs,
                            headers |-> [name \in {"Retry-After"} |-> secs]]]

\* jwt.sign(payload, JWT_SECRET, {expiresIn: '7d'}) and jwt.verify
JwtExpiresIn == 7 * 24 * 60 * 60
sign(userId, time) == [userId |-> userId, exp |-> time + JwtExpiresIn, secret |-> "JWT_SECRET"]

verify(token, time) ==
    IF token.secret # "JWT_SECRET"
    THEN [threw |-> TRUE, name |-> "JsonWebTokenError", message |-> "invalid signature"]
    ELSE IF time >= token.exp
    THEN [threw |-> TRUE, name |-> "TokenExpiredError", message |-> "jwt expired"]
    ELSE [threw |-> FALSE, decoded |-> [userId |-> token.userId]]

\* error instanceof jwt.JsonWebTokenError: jsonwebtoken derives
\* TokenExpiredError and NotBeforeError from JsonWebTokenError
instanceofJsonWebTokenError(error) ==
    error.name \in {"JsonWebTokenError", "TokenExpiredError", "NotBeforeError"}

instanceofTokenExpiredError(error) == error.name = "TokenExpiredError"

\* bcrypt.hash and bcrypt.compare
hash(password) == <<"bcrypt", password>>
compare(password, passwordHash) == passwordHash = hash(password)

\* the user table when the server starts: the three users of the routes above
Email(id) ==
    IF id = "admin" THEN <<"a", "@", "x", ".", "i", "o">>
    ELSE IF id = "manager" THEN <<"m", "@", "x", ".", "i", "o">>
    ELSE <<"u", "@", "x", ".", "i", "o">>

userRows ==
    {u @@ [email |-> Email(u.id), passwordHash |-> hash("password-1"), lastActiveAt |-> 0] :
        u \in Users}

findUnique(users, field, value) == {u \in users : u[field] = value}

NoHeader == [scheme |-> None]
Bearer(token) == [scheme |-> "Bearer", token |-> token]

Rejection(users, status, message) ==
    [users |-> users, next |-> FALSE, user |-> NoUser,
     response |-> [status |-> status, message |-> message]]

\* authMiddleware: next() with req.user set, or the response it sends
authMiddleware(users, req, time) ==
    LET authHeader == req.authorization
    IN  IF authHeader = NoHeader \/ authHeader.scheme # "Bearer"
        THEN Rejection(users, 401, "No valid authentication token provided")
        ELSE LET verified == verify(authHeader.token, time)
             IN  IF verified.threw
                 THEN IF instanceofJsonWebTokenError(verified)
                      THEN Rejection(users, 401, "Invalid token")
                      ELSE IF instanceofTokenExpiredError(verified)
                      THEN Rejection(users, 401, "Token expired")
                      ELSE Rejection(users, 500, "Authentication service error")
                 ELSE LET found == findUnique(users, "id", verified.decoded.userId)
                      IN  IF found = {}
                          THEN Rejection(users, 401, "User not found")
                          ELSE LET user == CHOOSE u \in found : TRUE
                               IN  [users |-> (users \ {user})
                                                \cup {[user EXCEPT !.lastActiveAt = time]},
                                    next |-> TRUE,
                                    user |-> [id |-> user.id, role |-> user.role,
                                              venueIds |-> user.venueIds]]

\* what a route leaves behind: the table, req.user, the handler that ran
\* (None when none did) and the response
Outcome(users, user, handler, res) ==
    [users |-> users, user |-> user, handler |-> handler, response |-> res]

\* a route behind authMiddleware
protected(auth, handled) ==
    IF auth.next THEN handled
    ELSE Outcome(auth.users, NoUser, None, auth.response)

\* errorHandler on an error made by createError
AppError(users, user, handler, status, message) ==
    Outcome(users, user, handler,
            [status |-> status, error |-> "Application Error", message |-> message])

\* Joi: the first required key that is missing, then the rules of password
\* (a string is not allowed to be empty; min(8) at sign-up)
validateSignUp(data) ==
    LET missing == required(<<"email", "password", "firstName", "lastName">>, data)
    IN  IF missing.error THEN missing
        ELSE IF data.password = ""
        THEN ValidationError("\"password\" is not allowed to be empty")
        ELSE IF Len(data.password) < 8
        THEN ValidationError("\"password\" length must be at least 8 characters long")
        ELSE NoError

validateSignIn(data) ==
    LET missing == required(<<"email", "password">>, data)
    IN  IF missing.error THEN missing
        ELSE IF data.password = ""
        THEN ValidationError("\"password\" is not allowed to be empty")
        ELSE NoError

\* POST /auth/signup; cuid is the id prisma gives the new row
signup(users, req, time, cuid) ==
    LET validation == validateSignUp(req.body)
    IN  IF validation.error THEN AppError(users, NoUser, "signup", 400, validation.message)
        ELSE IF findUnique(users, "email", toLowerCase(req.body.email)) # {}
        THEN AppError(users, NoUser, "signup", 409, "User with this email already exists")
        ELSE LET user == [id |-> cuid, role |-> "USER", venueIds |-> <<>>,
                          email |-> toLowerCase(req.body.email),
                          passwordHash |-> hash(req.body.password),
                          lastActiveAt |-> 0]
             IN  Outcome(users \cup {user}, NoUser, "signup",
                         [status |-> 201, message |-> "User created successfully",
                          token |-> sign(user.id, time)])

\* POST /auth/signin
signin(users, req, time) ==
    LET validation == validateSignIn(req.body)
    IN  IF validation.error THEN AppError(users, NoUser, "signin", 400, validation.message)
        ELSE LET found == findUnique(users, "email", toLowerCase(req.body.email))
             IN  IF found = {}
                 THEN AppError(users, NoUser, "signin", 401, "Invalid email or password")
                 ELSE LET user == CHOOSE u \in found : TRUE
                      IN  IF ~compare(req.body.password, user.passwordHash)
                          THEN AppError(users, NoUser, "signin", 401,
                                        "Invalid email or password")
                          ELSE Outcome((users \ {user})
                                          \cup {[user EXCEPT !.lastActiveAt = time]},
                                       NoUser, "signin",
                                       [status |-> 200,
                                        message |-> "Signed in successfully",
                                        token |-> sign(user.id, time)])

\* POST /auth/signout
signout(users, user) ==
    Outcome(users, user, "signout", [status |-> 200, message |-> "Signed out successfully"])

\* POST /auth/refresh
refresh(users, user, time) ==
    Outcome(users, user, "refresh",
            [status |-> 200, message |-> "refreshed", token |-> sign(user.id, time)])

\* GET /venues, as far as this chain is concerned
listVenues(users, user) ==
    Outcome(users, user, "venues", [status |-> 200, message |-> "venues"])

\* a deletion that leaves the row where it is
deleteMeKeepsRow(users, user) ==
    Outcome(users, user, "deleteMe",
            [status |-> 200, message |-> "Account deleted successfully"])

\* DELETE /users/me
deleteMe(users, user) ==
    Outcome({u \in users : u.id # user.id}, user, "deleteMe",
            [status |-> 200, message |-> "Account deleted successfully"])

\* the app's routes in the order they are mounted, the 404 handler last
routes(users, req, time, cuid) ==
    LET auth == authMiddleware(users, req, time)
    IN  IF req.method = "GET" /\ req.path = PathHealth
        THEN Outcome(users, NoUser, "health", [status |-> 200, message |-> "healthy"])
        ELSE IF req.method = "POST" /\ req.path = PathSignup
        THEN signup(users, req, time, cuid)
        ELSE IF req.method = "POST" /\ req.path = PathSignin
        THEN signin(users, req, time)
        ELSE IF req.method = "POST" /\ req.path = PathSignout
        THEN protected(auth, signout(auth.users, auth.user))
        ELSE IF req.method = "POST" /\ req.path = PathRefresh
        THEN protected(auth, refresh(auth.users, auth.user, time))
        ELSE IF req.method = "GET" /\ req.path = PathVenues
        THEN protected(auth, listVenues(auth.users, auth.user))
        ELSE IF req.method = "DELETE" /\ req.path = PathUsersMe
        THEN protected(auth, deleteMe(auth.users, auth.user))
        ELSE Outcome(users, NoUser, None,
                     [status |-> 404, error |-> "Not Found", message |-> "Route not found",
                      originalUrl |-> req.path])

\* auditLogger
AUDITABLE_ACTIONS == {"POST", "PUT", "PATCH", "DELETE"}
SENSITIVE_ENDPOINTS == {PathAuth, PathVenues, PathUsers}

shouldAudit(req) ==
    \/ req.method \in AUDITABLE_ACTIONS
    \/ \E endpoint \in SENSITIVE_ENDPOINTS : startsWith(req.path, endpoint)

\* path.split('/').filter(Boolean)[0], 'unknown' when there is none
RECURSIVE upToSlash(_)
upToSlash(str) ==
    IF str = <<>> \/ Head(str) = "/" THEN <<>> ELSE <<Head(str)>> \o upToSlash(Tail(str))

RECURSIVE extractResourceFromPath(_)
extractResourceFromPath(path) ==
    IF path = <<>> THEN <<"u", "n", "k", "n", "o", "w", "n">>
    ELSE IF Head(path) = "/" THEN extractResourceFromPath(Tail(path))
    ELSE upToSlash(path)

sensitiveFields == {"password", "passwordHash", "token", "refreshToken", "secret", "apiKey"}

\* a sanitizer that writes into the body it is given
sanitizeRequestBodyInPlace(body) ==
    LET sanitized == [field \in DOMAIN body |->
                         IF field \in sensitiveFields /\ body[field] # ""
                         THEN "[REDACTED]" ELSE body[field]]
    IN  [sanitized |-> sanitized, body |-> sanitized]

\* sanitizeRequestBody: what it returns, and the body it was given afterwards
sanitizeRequestBody(body) ==
    LET sanitized == [field \in DOMAIN body |->
                         IF field \in sensitiveFields /\ body[field] # ""
                         THEN "[REDACTED]" ELSE body[field]]
    IN  [sanitized |-> sanitized, body |-> body]

\* the row that the 'finish' listener writes
auditData(req, outcome) ==
    [userId |-> IF outcome.user = NoUser THEN None ELSE outcome.user.id,
     action |-> <<req.method, req.path>>,
     resource |-> extractResourceFromPath(req.path),
     resourceId |-> None,
     metadata |-> [method |-> req.method, path |-> req.path,
                   statusCode |-> outcome.response.status,
                   requestBody |-> sanitizeRequestBody(req.body).sanitized,
                   success |-> outcome.response.status < 400],
     ipAddress |-> req.ip]

\* the requests exchange so far are counted
MaxRequests == 7

NotServed == [n |-> 0]

\* One request, from its arrival to the 'finish' of its response:
\* rateLimitMiddleware, then auditLogger around the routes.
Serve(req) ==
    /\ exchange.n < MaxRequests
    /\ LET limited == rateLimitMiddleware(rateLimits, req, clock)
           outcome == routes(userTable, req, clock, "cuid" \o ToString(exchange.n + 1))
       IN  /\ rateLimits' = limited.limits
           /\ IF ~limited.next
              THEN /\ exchange' = [n |-> exchange.n + 1, request |-> req, at |-> clock,
                                 admitted |-> FALSE, user |-> NoUser, handler |-> None,
                                 response |-> limited.response, audited |-> FALSE,
                                 body |-> req.body]
                   /\ UNCHANGED <<userTable, auditLog, admitted>>
              ELSE /\ userTable' = outcome.users
                   /\ admitted' = Append(admitted, [key |-> req.ip, path |-> req.path,
                                                    at |-> clock])
                   /\ auditLog' = IF shouldAudit(req)
                                  THEN Append(auditLog, auditData(req, outcome))
                                  ELSE auditLog
                   /\ exchange' = [n |-> exchange.n + 1, request |-> req, at |-> clock,
                                 admitted |-> TRUE, user |-> outcome.user,
                                 handler |-> outcome.handler,
                                 response |-> outcome.response,
                                 audited |-> shouldAudit(req),
                                 body |-> IF shouldAudit(req)
                                          THEN sanitizeRequestBody(req.body).body
                                          ELSE req.body]
    /\ UNCHANGED clock

\* time passes on the server, up to the instant t
Pass(t) ==
    /\ clock < t
    /\ clock' = t
    /\ UNCHANGED <<rateLimits, userTable, auditLog, admitted, exchange>>

---------------------------------------------------------------------------
(* GET /venues *)

DayHours == 24

\* busySnapshots of the include: those of the venue from the last 24 hours,
\* orderBy timestamp desc, take 1
latestSnapshots(table, id) ==
    LET recent == findMany(table, id, Now - DayHours)
        newest == {i \in 1 .. Len(recent) :
                      \A j \in 1 .. Len(recent) : recent[j].timestamp <= recent[i].timestamp}
    IN  IF newest = {} THEN <<>> ELSE <<recent[CHOOSE i \in newest : TRUE]>>

\* a || b on numbers
OrNumber(a, b) == IF a = 0 THEN b ELSE a

\* the element of venuesWithStatus for a venue
venueWithStatus(id, table) ==
    LET busySnapshots == latestSnapshots(table, id)
    IN  [id |-> id, capacity |-> Capacity[id],
         currentStatus |-> IF busySnapshots = <<>> THEN "MODERATE"
                           ELSE busySnapshots[1].status,
         currentOccupancy |-> IF busySnapshots = <<>> THEN 0
                              ELSE OrNumber(busySnapshots[1].occupancyCount, 0),
         occupancyPercentage |-> IF busySnapshots = <<>> THEN 0
                                 ELSE OrNumber(busySnapshots[1].occupancyPercentage, 0)]

\* the venue table in the order of the query
venueList == <<"1", "2">>

\* the handler, without filters
GetVenues ==
    /\ response = NoResponse
    /\ response' = [route |-> "venues", id |-> None, status |-> 200,
                    venues |-> [i \in 1 .. Len(venueList) |->
                                   venueWithStatus(venueList[i], busySnapshot)],
                    metadata |-> [total |-> Len(venueList)]]
    /\ UNCHANGED <<busySnapshot, content>>

\* snapshots of the last day and one older than that
ListInputs ==
    {Snapshot("1", Now - 1, 90), Snapshot("1", Now - 2, 10), Snapshot("1", Now - 23, 30),
     Snapshot("1", Now - DayHours - 1, 70), Snapshot("2", Now - 3, 60)}

---------------------------------------------------------------------------
(* Initial states and specifications, one per program *)

NoSnapshot == [venueId |-> None]
NoCall     == [called |-> FALSE]

AggInit ==
    /\ busySnapshot = <<>>
    /\ response = NoResponse
    /\ content = <<>>

SeedInit ==
    /\ seedVenue = 0
    /\ seedNow = 0
    /\ seedI = 0
    /\ seedCreated = NoSnapshot
    /\ seedProbe = NoProbe

FallbackInit ==
    /\ fallbackProbe = NoProbe
    /\ busyTimesCall = NoCall

\* the fallback server has started: nothing cached, nothing received
LiveInit ==
    /\ liveCache = {}
    /\ now = 0
    /\ inFlight = [c \in Clients |-> Idle]

\* the generator is not running: no category has been handed to it
GenIdle ==
    /\ venueCategory = <<>>
    /\ dayPattern = NoCall
    /\ popularTimes = NoCall

GenInit ==
    /\ venueCategory \in CategoryInputs
    /\ dayPattern = NoCall
    /\ popularTimes = NoCall

\* the REST server's aggregation routes
\* the REST server's middleware chain has exchange nothing yet
ApiInit ==
    /\ rateLimits = {}
    /\ clock = 0
    /\ userTable = userRows
    /\ auditLog = <<>>
    /\ admitted = <<>>
    /\ exchange = NotServed

Init == AggInit /\ SeedInit /\ FallbackInit /\ LiveInit /\ GenIdle /\ ApiInit

Next ==
    \/ \E s \in SnapshotInputs : CreateSnapshot(s) /\ UNCHANGED <<seedVars, fallbackVars, liveVars, genVars, apiVars>>
    \/ \E id \in RequestIds : GetBusyAggregates(id) /\ UNCHANGED <<seedVars, fallbackVars, liveVars, genVars, apiVars>>
    \/ \E user \in Users, id \in RequestIds :
          GetAnalyticsOverview(user, id) /\ UNCHANGED <<seedVars, fallbackVars, liveVars, genVars, apiVars>>
    \/ ResponseSent /\ UNCHANGED <<seedVars, fallbackVars, liveVars, genVars, apiVars>>

Spec == Init /\ [][Next]_vars

\* the seed script
SeedNext ==
    \/ SeedBeginVenue /\ UNCHANGED <<aggVars, fallbackVars, liveVars, genVars, apiVars>>
    \/ SeedCreateSnapshot /\ UNCHANGED <<aggVars, fallbackVars, liveVars, genVars, apiVars>>
    \/ \E p \in ProbePercentages : SeedClassify(p) /\ UNCHANGED <<aggVars, fallbackVars, liveVars, genVars, apiVars>>

SpecSeed == Init /\ [][SeedNext]_vars

\* the fallback server
FallbackNext ==
    \/ \E pct \in FallbackPercentages :
          FallbackClassify(pct) /\ UNCHANGED <<aggVars, seedVars, liveVars, genVars, apiVars>>
    \/ \E run \in JitterRuns :
          GenerateBusyTimes(run) /\ UNCHANGED <<aggVars, seedVars, liveVars, genVars, apiVars>>

SpecFallback == Init /\ [][FallbackNext]_vars

\* the fallback server's live routes, with one client
LiveNext ==
    \/ \E request \in Requests :
          Receive(FirstClient, request) /\ UNCHANGED <<aggVars, seedVars, fallbackVars, genVars, apiVars>>
    \/ \E runs \in [1 .. BatchLength -> LiveRuns] :
          Handle(FirstClient, runs) /\ UNCHANGED <<aggVars, seedVars, fallbackVars, genVars, apiVars>>
    \/ Deliver(FirstClient) /\ UNCHANGED <<aggVars, seedVars, fallbackVars, genVars, apiVars>>
    \/ \E d \in Delays : Tick(d) /\ UNCHANGED <<aggVars, seedVars, fallbackVars, genVars, apiVars>>
    \/ CheckData /\ UNCHANGED <<aggVars, seedVars, fallbackVars, genVars, apiVars>>

SpecLive == Init /\ [][LiveNext]_vars

\* the live routes with two clients after the same venue
RaceNext ==
    \/ \E c \in Clients, request \in RaceRequests :
          Receive(c, request) /\ UNCHANGED <<aggVars, seedVars, fallbackVars, genVars, apiVars>>
    \/ \E c \in Clients, runs \in [1 .. BatchLength -> LiveRuns] :
          Handle(c, runs) /\ UNCHANGED <<aggVars, seedVars, fallbackVars, genVars, apiVars>>
    \/ \E c \in Clients :
          Deliver(c) /\ UNCHANGED <<aggVars, seedVars, fallbackVars, genVars, apiVars>>
    \/ \E d \in Delays : Tick(d) /\ UNCHANGED <<aggVars, seedVars, fallbackVars, genVars, apiVars>>
    \/ CheckData /\ UNCHANGED <<aggVars, seedVars, fallbackVars, genVars, apiVars>>

SpecRace == Init /\ [][RaceNext]_vars

\* the REST server's venue management routes
ManageNext ==
    \/ \E user \in Users, id \in RequestIds, body \in DealBodies :
          CreateDeal(user, id, body) /\ UNCHANGED <<seedVars, fallbackVars, liveVars, genVars, apiVars>>
    \/ \E user \in Users, id \in RequestIds, body \in EventBodies :
          CreateEvent(user, id, body) /\ UNCHANGED <<seedVars, fallbackVars, liveVars, genVars, apiVars>>
    \/ \E user \in Users, id \in RequestIds, body \in PostBodies :
          CreatePost(user, id, body) /\ UNCHANGED <<seedVars, fallbackVars, liveVars, genVars, apiVars>>
    \/ \E user \in Users, id \in RequestIds :
          GetAnalyticsOverview(user, id) /\ UNCHANGED <<seedVars, fallbackVars, liveVars, genVars, apiVars>>
    \/ \E user \in Users, body \in VenueBodies :
          CreateVenue(user, body) /\ UNCHANGED <<seedVars, fallbackVars, liveVars, genVars, apiVars>>
    \/ \E user \in Users, id \in RequestIds, body \in VenueBodies :
          UpdateVenue(user, id, body) /\ UNCHANGED <<seedVars, fallbackVars, liveVars, genVars, apiVars>>
    \/ ResponseSent /\ UNCHANGED <<seedVars, fallbackVars, liveVars, genVars, apiVars>>

SpecManage == Init /\ [][ManageNext]_vars

\* lookups of a single venue, on the fallback server and on the REST server
LookupNext ==
    \/ \E id \in RequestIds :
          Receive(FirstClient, [route |-> "live", id |-> id])
              /\ UNCHANGED <<aggVars, seedVars, fallbackVars, genVars, apiVars>>
    \/ \E runs \in [1 .. BatchLength -> LiveRuns] :
          Handle(FirstClient, runs) /\ UNCHANGED <<aggVars, seedVars, fallbackVars, genVars, apiVars>>
    \/ Deliver(FirstClient) /\ UNCHANGED <<aggVars, seedVars, fallbackVars, genVars, apiVars>>
    \/ \E d \in Delays : Tick(d) /\ UNCHANGED <<aggVars, seedVars, fallbackVars, genVars, apiVars>>
    \/ CheckData /\ UNCHANGED <<aggVars, seedVars, fallbackVars, genVars, apiVars>>
    \/ \E id \in RequestIds :
          GetBusyAggregates(id) /\ UNCHANGED <<seedVars, fallbackVars, liveVars, genVars, apiVars>>
    \/ ResponseSent /\ UNCHANGED <<seedVars, fallbackVars, liveVars, genVars, apiVars>>

SpecLookup == Init /\ [][LookupNext]_vars

\* the generator
GenNext ==
    \/ \E dayOfWeek \in DaysOfWeek :
          GenerateDayPattern(dayOfWeek) /\ UNCHANGED <<aggVars, seedVars, fallbackVars, liveVars, apiVars>>
    \/ GenerateEstimatedPopularTimes /\ UNCHANGED <<aggVars, seedVars, fallbackVars, liveVars, apiVars>>

\* the generator is handed a venue category
GenStart ==
    /\ busySnapshot = <<>>
    /\ response = NoResponse
    /\ content = <<>>
    /\ seedVenue = 0
    /\ seedNow = 0
    /\ seedI = 0
    /\ seedCreated = NoSnapshot
    /\ seedProbe = NoProbe
    /\ fallbackProbe = NoProbe
    /\ busyTimesCall = NoCall
    /\ liveCache = {}
    /\ now = 0
    /\ inFlight = [c \in Clients |-> Idle]
    /\ rateLimits = {}
    /\ clock = 0
    /\ userTable = userRows
    /\ auditLog = <<>>
    /\ admitted = <<>>
    /\ exchange = NotServed
    /\ GenInit

SpecGen == GenStart /\ [][GenNext]_vars

\* what clients send to the chain
Ips == {"10.0.0.1", "10.0.0.2"}
Credentials == [email |-> Email("user"), password |-> "password-1"]
NoBody == <<>>
Request(method, path, ip, authorization, body) ==
    [method |-> method, path |-> path, ip |-> ip, authorization |-> authorization,
     body |-> body]

\* the rate limiter under load from two addresses: sign-ins from both,
\* token refreshes from the first
FirstIp == "10.0.0.1"
RateRequests ==
    {Request("POST", PathSignin, ip, NoHeader, Credentials) : ip \in Ips}
    \cup {Request("POST", PathRefresh, FirstIp, Bearer(sign("user", 0)), NoBody)}

\* the instants at which they send: the start of a window, its last second
\* and the first second after it
RateInstants == {0, authLimiter.duration - 1, authLimiter.duration}

RateNext ==
    \/ \E req \in RateRequests :
          Serve(req) /\ UNCHANGED <<aggVars, seedVars, fallbackVars, liveVars, genVars>>
    \/ \E t \in RateInstants :
          Pass(t) /\ UNCHANGED <<aggVars, seedVars, fallbackVars, liveVars, genVars>>

SpecRate == Init /\ [][RateNext]_vars


\* the audit logger: sign-ins with and without a password, a health check
\* and a POST to a path that no route serves, all from one address
AuditBodies ==
    { Credentials,
      [email |-> Email("user"), password |-> "", token |-> "t0k3n", refreshToken |-> ""],
      [apiKey |-> "k-1", secret |-> "s-1", passwordHash |-> "h-1", note |-> "n"] }
AuditRequests ==
    {Request("POST", PathSignin, FirstIp, NoHeader, body) : body \in AuditBodies}
    \cup {Request("GET", PathHealth, FirstIp, NoHeader, NoBody),
          Request("POST", PathStatus, FirstIp, NoHeader, Credentials)}

AuditNext ==
    \E req \in AuditRequests :
        Serve(req) /\ UNCHANGED <<aggVars, seedVars, fallbackVars, liveVars, genVars>>

SpecAudit == Init /\ [][AuditNext]_vars

\* the REST server's venue list
VenuesNext ==
    \/ \E s \in ListInputs :
          CreateSnapshot(s) /\ UNCHANGED <<seedVars, fallbackVars, liveVars, genVars, apiVars>>
    \/ GetVenues /\ UNCHANGED <<seedVars, fallbackVars, liveVars, genVars, apiVars>>
    \/ ResponseSent /\ UNCHANGED <<seedVars, fallbackVars, liveVars, genVars, apiVars>>

SpecVenues == Init /\ [][VenuesNext]_vars

\* authMiddleware: requests of the user with a token that lasts, with one
\* that expires a minute after the server's start, with a token signed with
\* another secret, and without a token
ExpiresAt == 60
LastingToken == sign("user", 0)
ExpiringToken == sign("user", ExpiresAt - JwtExpiresIn)
ForgedToken == [userId |-> "user", exp |-> JwtExpiresIn, secret |-> "guess"]
TokenRequests ==
    {Request("GET", PathVenues, FirstIp, Bearer(token), NoBody) :
        token \in {LastingToken, ExpiringToken, ForgedToken}}
    \cup {Request("POST", PathSignout, FirstIp, Bearer(ExpiringToken), NoBody),
          Request("GET", PathVenues, FirstIp, NoHeader, NoBody)}

TokenNext ==
    \/ \E req \in TokenRequests :
          Serve(req) /\ UNCHANGED <<aggVars, seedVars, fallbackVars, liveVars, genVars>>
    \/ Pass(ExpiresAt) /\ UNCHANGED <<aggVars, seedVars, fallbackVars, liveVars, genVars>>

SpecToken == Init /\ [][TokenNext]_vars

\* the analytics overview over snapshots of four hours of the day
MaxPeakSnapshots == 4
PeakInputs ==
    {Snapshot("1", thirtyDaysAgo + 1, 90), Snapshot("1", thirtyDaysAgo + 2, 70),
     Snapshot("1", thirtyDaysAgo + 3, 70), Snapshot("1", thirtyDaysAgo + 4, 10),
     Snapshot("1", thirtyDaysAgo + HoursPerDay + 1, 10), Snapshot("1", OldTimestamp, 90)}

PeakNext ==
    \/ \E s \in PeakInputs :
          CreateSnapshotUpTo(s, MaxPeakSnapshots)
              /\ UNCHANGED <<seedVars, fallbackVars, liveVars, genVars, apiVars>>
    \/ \E user \in Users, id \in VenueIds :
          GetAnalyticsOverview(user, id)
              /\ UNCHANGED <<seedVars, fallbackVars, liveVars, genVars, apiVars>>
    \/ ResponseSent /\ UNCHANGED <<seedVars, fallbackVars, liveVars, genVars, apiVars>>

SpecPeak == Init /\ [][PeakNext]_vars

\* the fallback server's computation of live data
ComputeNext ==
    \E venue \in LiveVenues, run \in JitterRuns :
        ComputeLiveDataForVenue(venue, run)
            /\ UNCHANGED <<aggVars, seedVars, liveVars, genVars, apiVars>>

SpecCompute == Init /\ [][ComputeNext]_vars

\* an account's life: the user signs out, lists the venues, deletes the
\* account, and someone signs up with the address of the account
NewAccount ==
    [email |-> <<"U", "@", "x", ".", "i", "o">>, password |-> "password-2",
     firstName |-> "F", lastName |-> "L"]
AccountRequests ==
    {Request("POST", PathSignout, FirstIp, Bearer(LastingToken), NoBody),
     Request("GET", PathVenues, FirstIp, Bearer(LastingToken), NoBody),
     Request("DELETE", PathUsersMe, FirstIp, Bearer(LastingToken), NoBody),
     Request("POST", PathSignup, FirstIp, NoHeader, NewAccount)}

AccountNext ==
    \/ \E req \in AccountRequests :
          Serve(req) /\ UNCHANGED <<aggVars, seedVars, fallbackVars, liveVars, genVars>>
    \/ Pass(ExpiresAt) /\ UNCHANGED <<aggVars, seedVars, fallbackVars, liveVars, genVars>>

SpecAccount == Init /\ [][AccountNext]_vars

---------------------------------------------------------------------------
(* Properties of the aggregation routes (Spec) *)

AggregatesServed == response.route = "aggregates" /\ response.status = 200
OverviewServed   == response.route = "overview" /\ response.status = 200

\* the rows of the table in the 30-day window of venue id
WindowRows(id) ==
    {i \in 1 .. Len(busySnapshot) :
        /\ busySnapshot[i].venueId = id
        /\ busySnapshot[i].timestamp >= thirtyDaysAgo}

RowsOfHour(id, h) == {i \in WindowRows(id) : getHours(busySnapshot[i].timestamp) = h}
RowsOfDay(id, d)  == {i \in WindowRows(id) : getDay(busySnapshot[i].timestamp) = d}

RECURSIVE SumPercentages(_)
SumPercentages(rows) ==
    IF rows = {} THEN 0
    ELSE LET i == CHOOSE j \in rows : TRUE
         IN  busySnapshot[i].occupancyPercentage + SumPercentages(rows \ {i})

RECURSIVE SumCounts(_)
SumCounts(rows) ==
    IF rows = {} THEN 0
    ELSE LET i == CHOOSE j \in rows : TRUE
         IN  busySnapshot[i].occupancyCount + SumCounts(rows \ {i})

\* the number x is the mean of the percentages of the rows (0 if there are none)
IsMeanOf(x, rows) ==
    /\ x.den > 0
    /\ IF rows = {} THEN x.num = 0
       ELSE x.num * Cardinality(rows) = SumPercentages(rows) * x.den

\* the integer p is the largest percentage of the rows (0 if there are none)
IsPeakOf(p, rows) ==
    IF rows = {} THEN p = 0
    ELSE /\ \E i \in rows : busySnapshot[i].occupancyPercentage = p
         /\ \A i \in rows : busySnapshot[i].occupancyPercentage <= p

\* C1: whatever the window, the aggregates response holds exactly 24 hourly
\* entries with hour = 0..23 in index order and exactly 7 daily entries with
\* dayOfWeek = 0..6 in index order.
C1_ShapeOfAggregates ==
    AggregatesServed =>
        /\ DOMAIN response.hourlyAverages = 0 .. 23
        /\ \A h \in 0 .. 23 : response.hourlyAverages[h].hour = h
        /\ DOMAIN response.dailyAverages = 0 .. 6
        /\ \A d \in 0 .. 6 : response.dailyAverages[d].dayOfWeek = d

\* a sparse window: two hours and two days have data, the others none
C1_Witness ==
    /\ AggregatesServed
    /\ Cardinality({h \in 0 .. 23 : RowsOfHour(response.venueId, h) # {}}) = 2
    /\ Cardinality({d \in 0 .. 6 : RowsOfDay(response.venueId, d) # {}}) = 2

\* C2: for every hour h, averageOccupancy is the mean of occupancyPercentage
\* over exactly the window's snapshots of hour h and peakOccupancy their
\* maximum; an hour without snapshot reports average 0 and peak 0.
C2_HourlyMeanAndPeak ==
    AggregatesServed =>
        \A h \in 0 .. 23 :
            /\ IsMeanOf(response.hourlyAverages[h].averageOccupancy,
                        RowsOfHour(response.venueId, h))
            /\ IsPeakOf(response.hourlyAverages[h].peakOccupancy,
                        RowsOfHour(response.venueId, h))

\* hour 20 with [70, 90] and hour 3 with [10]: 80 / 90 and 10 / 10
C2_Witness ==
    /\ AggregatesServed
    /\ Cardinality(WindowRows(response.venueId)) = 3
    /\ {busySnapshot[i].occupancyPercentage : i \in RowsOfHour(response.venueId, 20)}
          = {70, 90}
    /\ {busySnapshot[i].occupancyPercentage : i \in RowsOfHour(response.venueId, 3)}
          = {10}
    /\ response.hourlyAverages[20].averageOccupancy = Num(80)
    /\ response.hourlyAverages[20].peakOccupancy = 90
    /\ response.hourlyAverages[3].averageOccupancy = Num(10)
    /\ response.hourlyAverages[3].peakOccupancy = 10
    /\ \A h \in (0 .. 23) \ {3, 20} :
          /\ response.hourlyAverages[h].averageOccupancy = Num(0)
          /\ response.hourlyAverages[h].peakOccupancy = 0

\* C3: an empty window is served, not failed: 24 hourly entries with average
\* 0 and peak 0, 7 daily entries with average 0 and peakHour 0.
C3_EmptyWindow ==
    (response.route = "aggregates" /\ response.id \in VenueIds
        /\ WindowRows(response.id) = {}) =>
        /\ response.status = 200
        /\ DOMAIN response.hourlyAverages = 0 .. 23
        /\ \A h \in 0 .. 23 :
              /\ response.hourlyAverages[h].averageOccupancy = Num(0)
              /\ response.hourlyAverages[h].peakOccupancy = 0
        /\ DOMAIN response.dailyAverages = 0 .. 6
        /\ \A d \in 0 .. 6 :
              /\ response.dailyAverages[d].averageOccupancy = Num(0)
              /\ response.dailyAverages[d].peakHour = 0

\* the table holds rows, none of them in the window of the venue asked for
C3_Witness ==
    /\ AggregatesServed
    /\ WindowRows(response.venueId) = {}
    /\ Len(busySnapshot) >= 2

\* the orders in which n rows can be handed to the handler
Orders ==
    [n \in 0 .. MaxSnapshots |->
        {f \in [1 .. n -> 1 .. n] : \A i, j \in 1 .. n : f[i] = f[j] => i = j}]

Permuted(seq, f) == [i \in 1 .. Len(seq) |-> seq[f[i]]]

\* C4: the hourly and the daily aggregates do not depend on the order of the
\* snapshots: every permutation of the window the handler read yields the
\* hourlyAverages and dailyAverages of the response.
C4_PermutationInvariant ==
    AggregatesServed =>
        \A f \in Orders[Len(response.snapshots)] :
            LET permuted == Permuted(response.snapshots, f)
                hourly == hourlyAverages(permuted)
            IN  /\ hourly = response.hourlyAverages
                /\ dailyAverages(permuted, hourly) = response.dailyAverages

\* three snapshots were read, the largest of an hour before a smaller one
C4_Witness ==
    /\ AggregatesServed
    /\ Len(response.snapshots) = 3
    /\ \E i, j \in 1 .. 3 :
          /\ i < j
          /\ getHours(response.snapshots[i].timestamp)
                = getHours(response.snapshots[j].timestamp)
          /\ response.snapshots[i].occupancyPercentage
                > response.snapshots[j].occupancyPercentage

\* per hour, the sum of the percentages of the window and their number (1 for
\* an hour without snapshot, whose mean is 0)
HourMeans(id) ==
    [h \in 0 .. 23 |->
        LET rows == RowsOfHour(id, h)
        IN  [sum |-> SumPercentages(rows),
             n |-> IF rows = {} THEN 1 ELSE Cardinality(rows)]]

\* the mean a is larger than the mean b
MeanGreater(a, b) == a.sum * b.n > b.sum * a.n

\* the mean of hour h is larger than the mean of hour g
HourMeanGreater(id, h, g) == MeanGreater(HourMeans(id)[h], HourMeans(id)[g])

\* the lowest of the hours whose mean over the whole window is highest
GlobalPeakHour(id) ==
    LET means == HourMeans(id)
    IN  CHOOSE h \in 0 .. 23 :
            \A g \in 0 .. 23 : /\ g < h => MeanGreater(means[h], means[g])
                               /\ g > h => ~MeanGreater(means[g], means[h])

\* C5: all 7 daily entries carry the same peakHour: the hour whose mean over
\* the whole window is highest, the lowest such hour on a tie, 0 for an empty
\* window; the day's own snapshots do not decide it.
C5_GlobalPeakHour ==
    AggregatesServed =>
        LET peak == GlobalPeakHour(response.id)
        IN  \A d \in 0 .. 6 : response.dailyAverages[d].peakHour = peak

\* hours 3 and 20 tie; a day whose snapshots are all of hour 20 reports hour 3
C5_Witness ==
    /\ AggregatesServed
    /\ RowsOfHour(response.id, 3) # {}
    /\ RowsOfHour(response.id, 20) # {}
    /\ ~HourMeanGreater(response.id, 3, 20)
    /\ ~HourMeanGreater(response.id, 20, 3)
    /\ \E d \in 0 .. 6 :
          /\ RowsOfDay(response.id, d) # {}
          /\ RowsOfDay(response.id, d) \subseteq RowsOfHour(response.id, 20)
          /\ response.dailyAverages[d].peakHour = 3

\* C6: the overview reports totalVisitors as the sum of occupancyCount over
\* the window and averageOccupancy as the mean of occupancyPercentage rounded
\* to the nearest integer; both are 0 for an empty window.
C6_OverviewSummary ==
    OverviewServed =>
        LET rows == WindowRows(response.id)
            n == Cardinality(rows)
            sum == SumPercentages(rows)
            r == response.averageOccupancy
        IN  /\ response.totalVisitors = SumCounts(rows)
            /\ rows = {} => (r = 0 /\ response.totalVisitors = 0)
            /\ rows # {} => (2 * n * r <= 2 * sum + n /\ 2 * sum + n < 2 * n * (r + 1))

\* a mean that is rounded up: its fraction is one half or more
C6_Witness ==
    /\ OverviewServed
    /\ LET rows == WindowRows(response.id)
           n == Cardinality(rows)
           sum == SumPercentages(rows)
       IN  /\ n >= 2
           /\ 2 * (sum % n) >= n
           /\ response.averageOccupancy = (sum \div n) + 1
           /\ response.totalVisitors > 0

---------------------------------------------------------------------------
(* Properties of the two status rules (SpecSeed, SpecFallback) *)

\* status is the tier of the integer percentage p on the boundaries 30/60/80
OnTiers306080(p, status) ==
    /\ status \in {"QUIET", "MODERATE", "BUSY", "VERY_BUSY"}
    /\ status = "QUIET" <=> p < 30
    /\ status = "MODERATE" <=> (30 <= p /\ p <= 59)
    /\ status = "BUSY" <=> (60 <= p /\ p <= 79)
    /\ status = "VERY_BUSY" <=> p >= 80

\* C7: the seed script's rule is total on the integer percentages 0..100 with
\* the boundaries 30/60/80 (QUIET below 30, MODERATE 30..59, BUSY 60..79,
\* VERY_BUSY from 80), and every snapshot the seed script creates carries the
\* status the rule gives its occupancyPercentage.
C7_SeedStatusTiers ==
    /\ seedProbe # NoProbe =>
          /\ seedProbe.occupancyPercentage \in 0 .. 100
          /\ OnTiers306080(seedProbe.occupancyPercentage, seedProbe.status)
    /\ seedCreated # NoSnapshot =>
          OnTiers306080(seedCreated.occupancyPercentage, seedCreated.status)

\* the seed script stores a snapshot on a boundary: 60 percent, BUSY
C7_Witness ==
    /\ seedCreated # NoSnapshot
    /\ seedCreated.occupancyPercentage = 60
    /\ seedCreated.status = "BUSY"
    /\ seedCreated.source = "seed"

\* C8: statusFromOccupancy has the boundaries 40/75: VERY_BUSY from 75, BUSY
\* 40..74, QUIET above 0 and below 40, UNKNOWN at 0 and below; never MODERATE;
\* so it differs from the 30/60/80 rule on 30..39, 40..59 and 75..79.
C8_FallbackStatusTiers ==
    fallbackProbe # NoProbe =>
        LET pct == fallbackProbe.pct
            status == fallbackProbe.status
        IN  /\ status = "VERY_BUSY" <=> pct >= 75
            /\ status = "BUSY" <=> (40 <= pct /\ pct < 75)
            /\ status = "QUIET" <=> (0 < pct /\ pct < 40)
            /\ status = "UNKNOWN" <=> pct <= 0
            /\ status # "MODERATE"
            /\ pct \in (30 .. 39) \cup (40 .. 59) \cup (75 .. 79) => status # statusOf(pct)

\* 75 percent: VERY_BUSY here, BUSY for the seed script
C8_Witness ==
    /\ fallbackProbe # NoProbe
    /\ fallbackProbe.pct = 75
    /\ fallbackProbe.status = "VERY_BUSY"
    /\ statusOf(fallbackProbe.pct) = "BUSY"

\* C14: every value of generateBusyTimes lies in 0..100, both the base of
\* each point before the jitter is added and the percentage returned after
\* jitter and clamping, for every point and every draw in [-5, 5).
C14_BaseAndPercentageInRange ==
    busyTimesCall.called =>
        \A idx \in DOMAIN busyTimesCall.busyTimes :
            /\ basePercentage(idx) \in 0 .. 100
            /\ busyTimesCall.busyTimes[idx].percentage \in 0 .. 100

\* what is returned is within 0..100 for every point and every draw
C14_PercentageInRange ==
    busyTimesCall.called =>
        \A idx \in DOMAIN busyTimesCall.busyTimes :
            busyTimesCall.busyTimes[idx].percentage \in 0 .. 100

\* the last point, whose base is 110, met the lowest draw and was clamped
C14_Witness ==
    /\ busyTimesCall.called
    /\ busyTimesCall.run[17] = -10
    /\ basePercentage(17) = 110
    /\ busyTimesCall.busyTimes[17].percentage = 100

---------------------------------------------------------------------------
(* Properties of the fallback server's live routes (SpecLive, SpecRace) *)

\* client c has an answer with live data
Answered(c) == inFlight[c].state = "answered"
AnsweredOk(c) == Answered(c) /\ inFlight[c].response.status = 200

\* the live data of an answer: that of a single venue, or those of a batch
ServedLiveData(c) ==
    IF inFlight[c].request.route = "live"
    THEN {inFlight[c].response.body.liveData}
    ELSE {inFlight[c].response.body.results[k].liveData :
              k \in 1 .. Len(inFlight[c].response.body.results)}

\* C15: every point of the busyTimes of live data returned by the fallback
\* server has isPredicted = true.
C15_PointsArePredicted ==
    \A c \in Clients :
        AnsweredOk(c) =>
            \A liveData \in ServedLiveData(c) :
                \A idx \in DOMAIN liveData.busyTimes :
                    liveData.busyTimes[idx].isPredicted = TRUE

\* GET /api/venues/1/live was answered with points that say isPredicted: false
C15_Witness ==
    /\ AnsweredOk(FirstClient)
    /\ inFlight[FirstClient].request.route = "live"
    /\ inFlight[FirstClient].response.body.liveData.busyTimes[0].isPredicted = FALSE

\* in this step the handler of client c's request runs
Handled(c) == inFlight[c].state = "pending" /\ inFlight'[c].state = "answered"

KnownIds == {venuesJson.venues[k].id : k \in 1 .. Len(venuesJson.venues)}

\* the live data computeLiveDataForVenue can give for the venue of an id
Computable(id) ==
    {computeLiveDataForVenue(venuesJson.venues[k], run) :
         k \in {j \in 1 .. Len(venuesJson.venues) : venuesJson.venues[j].id = id},
         run \in LiveRuns}

\* C16: the cache holds at most one result per venue id, with a fixed TTL.
\* A request for venue V that runs while V's entry is unexpired returns the
\* stored value and neither recomputes nor rewrites it; one that runs after
\* the TTL has elapsed (or with no entry) recomputes and stores the new value
\* with a fresh TTL, the other venues' entries being left alone.
C16_CacheTTL ==
    [][\A c \in Clients :
         (Handled(c) /\ inFlight[c].request.route = "live"
              /\ inFlight[c].request.id \in KnownIds) =>
            LET key == "live:" \o inFlight[c].request.id
                answer == inFlight'[c].response
                stored == {e \in liveCache : e.key = key /\ now <= e.t}
            IN  /\ answer.status = 200
                /\ \A e1, e2 \in liveCache' : e1.key = e2.key => e1 = e2
                /\ stored # {} =>
                      /\ liveCache' = liveCache
                      /\ answer.computed = {}
                      /\ \A e \in stored : answer.body.liveData = e.v
                /\ stored = {} =>
                      /\ answer.computed = {key}
                      /\ answer.body.liveData \in Computable(inFlight[c].request.id)
                      /\ [key |-> key, v |-> answer.body.liveData, t |-> now + stdTTL]
                             \in liveCache'
                      /\ {e \in liveCache' : e.key # key} = {e \in liveCache : e.key # key}
    ]_vars

\* a request answered from the entry stored a full TTL earlier, and a cache
\* that still holds that entry alone
C16_Witness ==
    /\ now = stdTTL
    /\ AnsweredOk(FirstClient)
    /\ inFlight[FirstClient].request.route = "live"
    /\ inFlight[FirstClient].response.computed = {}
    /\ liveCache = {[key |-> "live:" \o inFlight[FirstClient].request.id,
                     v |-> inFlight[FirstClient].response.body.liveData,
                     t |-> stdTTL]}

\* the ids of a list that are venues, in the order of the list
RECURSIVE KnownOf(_)
KnownOf(venueIds) ==
    IF venueIds = <<>> THEN <<>>
    ELSE IF Head(venueIds) \in KnownIds
         THEN <<Head(venueIds)>> \o KnownOf(Tail(venueIds))
         ELSE KnownOf(Tail(venueIds))

\* C17: a batch whose list mixes known and unknown ids is answered without
\* an error, with one entry for each known id requested and none for the
\* others; each entry holds the venue's live data, the cached one where an
\* unexpired entry was there and a computed one otherwise, which is what the
\* cache holds afterwards; and no cache entry is made for an unknown id.
C17_BatchOmitsUnknown ==
    [][\A c \in Clients :
         (Handled(c) /\ inFlight[c].request.route = "live-batch"
              /\ "venueIds" \in DOMAIN inFlight[c].request.body) =>
            LET venueIds == inFlight[c].request.body.venueIds
                answer == inFlight'[c].response
                results == answer.body.results
            IN  /\ answer.status = 200
                /\ [k \in 1 .. Len(results) |-> results[k].venueId] = KnownOf(venueIds)
                /\ \A k \in 1 .. Len(results) :
                      LET key == "live:" \o results[k].venueId
                      IN  /\ \A e \in liveCache :
                                (e.key = key /\ now <= e.t) => results[k].liveData = e.v
                          /\ results[k].liveData \in Computable(results[k].venueId)
                          /\ [key |-> key, v |-> results[k].liveData,
                               t |-> IF key \in answer.computed THEN now + stdTTL
                                     ELSE (CHOOSE e \in liveCache : e.key = key).t]
                                 \in liveCache'
                /\ \A e \in liveCache' :
                      e \in liveCache \/ \E k \in 1 .. Len(results) :
                                             e.key = "live:" \o results[k].venueId
                /\ \A k \in 1 .. Len(venueIds) :
                      venueIds[k] \notin KnownIds =>
                          \A e \in liveCache' : e.key # "live:" \o venueIds[k]
    ]_vars

\* the batch 1, 9, 2 was answered with the entries of 1 and 2, and the cache
\* holds these two keys
C17_Witness ==
    /\ AnsweredOk(FirstClient)
    /\ inFlight[FirstClient].request.route = "live-batch"
    /\ inFlight[FirstClient].request.body.venueIds = <<"1", "9", "2">>
    /\ Len(inFlight[FirstClient].response.body.results) = 2
    /\ inFlight[FirstClient].response.body.results[2].venueId = "2"
    /\ {e.key : e \in liveCache} = {"live:1", "live:2"}

\* C18: a lookup of a single venue by an id that is no known venue is
\* answered 404, by GET /api/venues/:id/live of the fallback server and by
\* GET /venues/:id/busy/aggregates of the REST server, and the live-data
\* cache is left as it was: nothing is computed or stored for the id.
C18_UnknownVenueNotFound ==
    [][/\ \A c \in Clients :
            (Handled(c) /\ inFlight[c].request.route = "live"
                 /\ inFlight[c].request.id \notin KnownIds) =>
               /\ inFlight'[c].response.status = 404
               /\ inFlight'[c].response.computed = {}
               /\ liveCache' = liveCache
       /\ (response = NoResponse /\ response' # NoResponse
               /\ response'.route = "aggregates" /\ response'.id \notin VenueIds) =>
               /\ response'.status = 404
               /\ liveCache' = liveCache
    ]_vars

\* both servers have answered 404 for the id 9, and the cache holds what it
\* held: the entry of venue 1
C18_Witness ==
    /\ Answered(FirstClient)
    /\ inFlight[FirstClient].request = [route |-> "live", id |-> "9"]
    /\ inFlight[FirstClient].response.status = 404
    /\ response.route = "aggregates"
    /\ response.id = "9"
    /\ response.status = 404
    /\ {e.key : e \in liveCache} = {"live:1"}

\* the venue ids a request asks live data for
AskedIds(request) ==
    IF request.route = "live" THEN {request.id}
    ELSE {request.body.venueIds[k] : k \in 1 .. Len(request.body.venueIds)}

\* the requests of a and b were in flight together while the entry of venue
\* id was absent or expired: b's was waiting when a's handler ran, and that
\* handler found no entry; both have been answered since
Raced(a, b, id) ==
    /\ a # b
    /\ AnsweredOk(a)
    /\ AnsweredOk(b)
    /\ b \in inFlight[a].beside
    /\ id \in AskedIds(inFlight[a].request) \cap AskedIds(inFlight[b].request)
    /\ ("live:" \o id) \in inFlight[a].response.computed

---------------------------------------------------------------------------
(* Properties of the venue management routes (SpecManage) *)

\* the response answers a venue manager's request for a venue of theirs
ManagersOwnVenue ==
    /\ response # NoResponse
    /\ response.route \in {"deals", "events", "posts", "overview"}
    /\ response.user.role = "VENUE_MANAGER"
    /\ SeqIncludes(response.user.venueIds, response.id)

\* the body of the answered request passes the schema of its route
BodyIsValid ==
    \/ response.route = "deals" /\ ~validateCreateDeal(response.body).error
    \/ response.route = "events" /\ ~validateCreateEvent(response.body).error
    \/ response.route = "posts" /\ ~validateCreatePost(response.body).error

\* C20: a venue manager whose venueIds contain X passes requireRole and
\* requireVenueAccess on POST /venues/X/deals, /events, /posts and on GET
\* /venues/X/analytics/overview, so that the handler is reached: a valid body
\* is persisted with venueId = X and answered 201, the overview is answered 200.
C20_ManagerReachesHandler ==
    ManagersOwnVenue =>
        /\ response.status \notin {401, 403}
        /\ response.route = "overview" => response.status = 200
        /\ (response.route # "overview" /\ BodyIsValid) =>
              /\ response.status = 201
              /\ content # <<>>
              /\ content[Len(content)].venueId = response.id
              /\ content[Len(content)].data = response.body

\* the manager of venues 1 and 2 posted a valid deal for venue 1 and was
\* answered 400, Venue ID required; no row was written
C20_Witness ==
    /\ ManagersOwnVenue
    /\ response.route = "deals"
    /\ response.id = "1"
    /\ BodyIsValid
    /\ response.status = 400
    /\ response.message = "Venue ID required"
    /\ content = <<>>

\* C21: whatever the sequence of requests, no deal, event or post is created
\* and no analytics overview is returned for a requester whose role is USER
\* or for a venue manager whose venueIds do not contain :id, and no venue is
\* created or updated for a requester whose role is not ADMIN.
C21_AccessIsEnforced ==
    [][LET user == response'.user
           entitled == \/ user.role = "ADMIN"
                       \/ /\ user.role = "VENUE_MANAGER"
                          /\ SeqIncludes(user.venueIds, response'.id)
       IN  /\ content' # content =>
                 /\ Len(content') = Len(content) + 1
                 /\ content'[Len(content')].table \in {"deal", "event", "post"} =>
                       entitled
                 /\ content'[Len(content')].table = "venue" => user.role = "ADMIN"
           /\ (response = NoResponse /\ response' # NoResponse
                   /\ response'.route = "overview" /\ response'.status = 200) =>
                 entitled
    ]_vars

\* a user was refused a deal for venue 1 after an admin had created one
C21_Witness ==
    /\ response # NoResponse
    /\ response.route = "deals"
    /\ response.user.role = "USER"
    /\ response.status = 403
    /\ Len(content) = 1
    /\ content[1].table = "deal"
    /\ content[1].createdById = "admin"

---------------------------------------------------------------------------
(* Properties of the middleware chain (SpecRate, SpecAudit, SpecAuth) *)

\* the requests to /auth/* of one address that the limiter passed on during
\* the 15 minutes that start at `from`
AuthAdmissions(key, from) ==
    {i \in 1 .. Len(admitted) :
        /\ admitted[i].key = key
        /\ startsWith(admitted[i].path, PathAuth)
        /\ from <= admitted[i].at
        /\ admitted[i].at < from + authLimiter.duration}

\* C22: per client address, at most 5 requests to /auth/* are passed on to
\* the route handlers within any 15 minutes; a further one in the window is
\* answered 429 with a Retry-After header and reaches no handler.
C22_AuthLimitedToFive ==
    /\ \A i \in 1 .. Len(admitted) :
          Cardinality(AuthAdmissions(admitted[i].key, admitted[i].at)) <= authLimiter.points
    /\ (/\ exchange # NotServed
        /\ startsWith(exchange.request.path, PathAuth)
        /\ Cardinality({i \in AuthAdmissions(exchange.request.ip,
                                             exchange.at - authLimiter.duration + 1) :
                           i < Len(admitted) \/ ~exchange.admitted}) >= authLimiter.points)
           => /\ exchange.response.status = 429
              /\ "Retry-After" \in DOMAIN exchange.response.headers
              /\ exchange.handler = None

\* a sixth POST /auth/refresh of one address within a minute has reached the
\* handler, which answered 200
C22_Witness ==
    /\ exchange # NotServed
    /\ exchange.request.path = PathRefresh
    /\ exchange.admitted
    /\ exchange.handler = "refresh"
    /\ exchange.response.status = 200
    /\ Cardinality({i \in AuthAdmissions(exchange.request.ip, 0) :
                       admitted[i].path = PathRefresh /\ admitted[i].at < 60}) = 6

\* a sensitive operation: a POST, PUT, PATCH or DELETE, or any request to a
\* path that starts with /auth, /venues or /users
Sensitive(req) ==
    \/ req.method \in {"POST", "PUT", "PATCH", "DELETE"}
    \/ startsWith(req.path, PathAuth)
    \/ startsWith(req.path, PathVenues)
    \/ startsWith(req.path, PathUsers)

\* C23: every request that performs a sensitive operation and is answered
\* leaves an audit record of itself when its response has finished, whichever
\* middleware answered it (handler, authMiddleware, error handler or rate
\* limiter).
C23_SensitiveIsAudited ==
    [][(exchange' # exchange /\ Sensitive(exchange'.request))
          => /\ Len(auditLog') = Len(auditLog) + 1
             /\ auditLog'[Len(auditLog')].action
                   = <<exchange'.request.method, exchange'.request.path>>
             /\ auditLog'[Len(auditLog')].metadata.statusCode = exchange'.response.status
      ]_vars

\* the sixth sign-in of an address was answered 429 by the rate limiter, and
\* the audit log holds the five sign-ins before it only
C23_Witness ==
    /\ exchange # NotServed
    /\ exchange.request.path = PathSignin
    /\ exchange.response.status = 429
    /\ ~exchange.audited
    /\ exchange.n = 6
    /\ Len(auditLog) = 5
    /\ \A i \in 1 .. 5 : auditLog[i].action = <<"POST", PathSignin>>

\* C24: the requestBody of an audit record holds '[REDACTED]' in place of
\* every non-empty top-level password, passwordHash, token, refreshToken,
\* secret and apiKey of the request's body, and the request's own body is
\* as it was.
C24_SecretsAreRedacted ==
    (exchange # NotServed /\ exchange.audited) =>
        LET body == exchange.request.body
            requestBody == auditLog[Len(auditLog)].metadata.requestBody
        IN  /\ DOMAIN requestBody = DOMAIN body
            /\ \A field \in DOMAIN body \cap sensitiveFields :
                  body[field] # "" =>
                      /\ requestBody[field] = "[REDACTED]"
                      /\ requestBody[field] # body[field]
            /\ exchange.body = body

\* a sign-in was audited whose body held a token and an empty password: the
\* record has the token redacted, the request still has it
C24_Witness ==
    /\ exchange # NotServed
    /\ exchange.audited
    /\ exchange.request.path = PathSignin
    /\ "token" \in DOMAIN exchange.request.body
    /\ exchange.body.token = "t0k3n"
    /\ auditLog[Len(auditLog)].metadata.requestBody.token = "[REDACTED]"
    /\ auditLog[Len(auditLog)].metadata.requestBody.password = ""

---------------------------------------------------------------------------
(* Properties of the venue list (SpecVenues) *)

VenuesServed == response # NoResponse /\ response.route = "venues"

\* C25: in what GET /venues reports, currentStatus is the 30/60/80 class of
\* the occupancyPercentage reported for the same venue, for every venue of
\* the response, those without a snapshot in the last 24 hours included.
C25_StatusFollowsPercentage ==
    VenuesServed =>
        \A i \in 1 .. Len(response.venues) :
            OnTiers306080(response.venues[i].occupancyPercentage,
                          response.venues[i].currentStatus)

\* venue 1 is reported from a snapshot of the last day, venue 2 has none and
\* is reported MODERATE at 0 per cent
C25_Witness ==
    /\ VenuesServed
    /\ response.venues[1].occupancyPercentage = 90
    /\ response.venues[1].currentStatus = "VERY_BUSY"
    /\ findMany(busySnapshot, "2", Now - DayHours) = <<>>
    /\ response.venues[2].occupancyPercentage = 0
    /\ response.venues[2].currentStatus = "MODERATE"

\* the routes that are mounted behind authMiddleware
BehindAuthMiddleware(req) ==
    \/ req.method = "POST" /\ req.path \in {PathSignout, PathRefresh}
    \/ startsWith(req.path, PathVenues)
    \/ startsWith(req.path, PathUsers)

\* authMiddleware has run on the request of the exchange, which carried a
\* Bearer token
TokenWasVerified(e) ==
    /\ e # NotServed
    /\ e.admitted
    /\ BehindAuthMiddleware(e.request)
    /\ e.request.authorization # NoHeader
    /\ e.request.authorization.scheme = "Bearer"

\* C26: authMiddleware tells the token failures apart: an expired token is
\* answered 401 'Token expired', any other failure of the verification 401
\* 'Invalid token'; in neither case is next() called or lastActiveAt updated.
C26_TokenFailuresDistinguished ==
    [][(exchange' # exchange /\ TokenWasVerified(exchange')) =>
          LET token == exchange'.request.authorization.token
              expired == token.secret = "JWT_SECRET" /\ exchange'.at >= token.exp
              invalid == token.secret # "JWT_SECRET"
          IN  /\ expired => /\ exchange'.response.status = 401
                            /\ exchange'.response.message = "Token expired"
              /\ invalid => /\ exchange'.response.status = 401
                            /\ exchange'.response.message = "Invalid token"
              /\ (expired \/ invalid) => /\ exchange'.handler = None
                                         /\ userTable' = userTable
      ]_vars

\* a request with the expired token was answered 401 'Invalid token'
C26_Witness ==
    /\ TokenWasVerified(exchange)
    /\ exchange.request.authorization.token = ExpiringToken
    /\ exchange.at >= ExpiresAt
    /\ exchange.response.status = 401
    /\ exchange.response.message = "Invalid token"
    /\ exchange.handler = None

---------------------------------------------------------------------------
(* Properties of the analytics overview's peak hours (SpecPeak) *)

\* the hours of the day that peakHours lists, in its order
ListedHours ==
    [i \in 1 .. Len(response.peakHours) |->
        CHOOSE h \in 0 .. 23 : ToString(h) \o ":00" = response.peakHours[i]]

\* C27: peakHours of the overview lists at most 3 hours, each an hour with at
\* least one snapshot in the window, in non-increasing order of the hour's
\* mean occupancyPercentage; no unlisted hour has a strictly higher mean than
\* a listed one; the list is empty when the window is.
C27_PeakHoursAreTheTop ==
    OverviewServed =>
        LET id == response.id
            peaks == response.peakHours
            listed == {ListedHours[i] : i \in 1 .. Len(peaks)}
        IN  /\ Len(peaks) <= 3
            /\ \A i \in 1 .. Len(peaks) :
                  /\ \E h \in 0 .. 23 : ToString(h) \o ":00" = peaks[i]
                  /\ RowsOfHour(id, ListedHours[i]) # {}
            /\ \A i, j \in 1 .. Len(peaks) :
                  i < j => ~HourMeanGreater(id, ListedHours[j], ListedHours[i])
            /\ \A h \in (0 .. 23) \ listed :
                  RowsOfHour(id, h) # {} =>
                      \A g \in listed : ~HourMeanGreater(id, h, g)
            /\ WindowRows(id) = {} => peaks = <<>>

\* four hours have snapshots, ingested lowest mean first; the three listed
\* are hours 1, 2 and 3, and hour 4, the lowest, is left out
C27_Witness ==
    /\ OverviewServed
    /\ Len(busySnapshot) = 4
    /\ getHours(busySnapshot[1].timestamp) = 4
    /\ \A h \in 1 .. 4 : RowsOfHour(response.id, h) # {}
    /\ response.peakHours = <<"1:00", "2:00", "3:00">>

---------------------------------------------------------------------------
(* Properties of computeLiveDataForVenue (SpecCompute) *)

LiveDataComputed(call) == call.called /\ "liveData" \in DOMAIN call

\* C28, as stated: the output of computeLiveDataForVenue does not depend on
\* the jitter, so two calls for one venue return the same output whatever
\* their random draws.
C28_OutputIgnoresJitter ==
    [][(/\ LiveDataComputed(busyTimesCall)
        /\ LiveDataComputed(busyTimesCall')
        /\ busyTimesCall'.venue = busyTimesCall.venue)
          => busyTimesCall'.liveData = busyTimesCall.liveData
      ]_vars

\* C28, amended: whatever the jitter, the last point of the curve is 100,
\* currentStatus is VERY_BUSY and currentOccupancy is the venue's capacity when
\* that is a number and 200 otherwise; the earlier points of busyTimes vary
\* with the jitter.
C28_StatusAndOccupancyIgnoreJitter ==
    LiveDataComputed(busyTimesCall) =>
        LET venue == busyTimesCall.venue
            liveData == busyTimesCall.liveData
        IN  /\ liveData.busyTimes[Len(hours) - 1].percentage = 100
            /\ liveData.currentStatus = "VERY_BUSY"
            /\ liveData.currentStatus \notin {"QUIET", "BUSY", "UNKNOWN"}
            /\ liveData.currentOccupancy
                  = IF "capacity" \in DOMAIN venue THEN venue.capacity ELSE 200

\* the venue without a capacity, with the lowest jitter on the last point:
\* 200 and VERY_BUSY
C28_Witness ==
    /\ LiveDataComputed(busyTimesCall)
    /\ "capacity" \notin DOMAIN busyTimesCall.venue
    /\ busyTimesCall.run[Len(hours) - 1] = -10
    /\ busyTimesCall.liveData.currentOccupancy = 200
    /\ busyTimesCall.liveData.currentStatus = "VERY_BUSY"

---------------------------------------------------------------------------
(* Properties of the cache shared by the two live routes (SpecRace) *)

\* the live data that an answer gives for the venue of an id
LiveDataGiven(request, answer, id) ==
    IF request.route = "live" THEN {answer.body.liveData}
    ELSE {answer.body.results[k].liveData :
             k \in {j \in 1 .. Len(answer.body.results) :
                       answer.body.results[j].venueId = id}}

\* C29: the single-venue route and the batch route share one cache entry per
\* venue, under the key live:<id>. Whichever route stored the entry of venue
\* V, a request for V by either route that runs within the TTL returns the
\* stored value and leaves the entry as it is; and every key of the cache is
\* live:<id> of an id that is a venue of venues.json.
C29_RoutesShareOneEntry ==
    [][/\ \A e \in liveCache' : \E id \in KnownIds : e.key = "live:" \o id
       /\ \A e1, e2 \in liveCache' : e1.key = e2.key => e1 = e2
       /\ \A c \in Clients :
            (Handled(c) /\ inFlight'[c].response.status = 200) =>
               \A id \in AskedIds(inFlight[c].request) \cap KnownIds :
                  \A e \in liveCache :
                     (e.key = "live:" \o id /\ now <= e.t) =>
                        /\ LiveDataGiven(inFlight[c].request, inFlight'[c].response, id)
                              = {e.v}
                        /\ e \in liveCache'
                        /\ ("live:" \o id) \notin inFlight'[c].response.computed
      ]_vars

\* the batch 9, 1 of one client computed the entry of venue 1, and the other
\* client's GET of venue 1 was answered with that entry, which is the only
\* one in the cache
C29_Witness ==
    \E a, b \in Clients :
        /\ AnsweredOk(a)
        /\ AnsweredOk(b)
        /\ inFlight[a].request.route = "live-batch"
        /\ inFlight[a].request.body.venueIds = <<"9", "1">>
        /\ inFlight[a].response.computed = {"live:1"}
        /\ inFlight[b].request.route = "live"
        /\ inFlight[b].response.computed = {}
        /\ inFlight[b].response.body.lastUpdated > inFlight[a].response.body.lastUpdated
        /\ inFlight[b].response.body.liveData
              = inFlight[a].response.body.results[1].liveData
        /\ liveCache = {[key |-> "live:1", v |-> inFlight[b].response.body.liveData,
                         t |-> inFlight[a].response.body.lastUpdated + stdTTL]}

\* the account of the user id has been deleted through DELETE /users/me: the
\* audit log has the row of that request
Deleted(id) ==
    \E i \in 1 .. Len(auditLog) :
        /\ auditLog[i].action = <<"DELETE", PathUsersMe>>
        /\ auditLog[i].metadata.statusCode = 200
        /\ auditLog[i].userId = id

\* the request of the exchange carried an unexpired token of the user id to
\* a route behind authMiddleware
CarriedTokenOf(e, id) ==
    /\ BehindAuthMiddleware(e.request)
    /\ e.request.authorization # NoHeader
    /\ e.request.authorization.scheme = "Bearer"
    /\ e.request.authorization.token.secret = "JWT_SECRET"
    /\ e.request.authorization.token.userId = id
    /\ e.at < e.request.authorization.token.exp

\* C30, as stated: once an account is deleted through DELETE /users/me, every
\* later request with the user's unexpired token is answered 401 'User not
\* found' by authMiddleware and reaches no protected handler; and POST
\* /auth/signout changes no server state, so the token is accepted after it.
C30_DeletedRejectedSignoutInert ==
    [][exchange' # exchange =>
          /\ \A id \in {u.id : u \in userRows} :
                (Deleted(id) /\ CarriedTokenOf(exchange', id)) =>
                    /\ exchange'.response.status = 401
                    /\ exchange'.response.message = "User not found"
                    /\ exchange'.handler = None
          /\ exchange'.handler = "signout" =>
                /\ UNCHANGED <<userTable, auditLog, rateLimits>>
                /\ authMiddleware(userTable', exchange'.request, clock').next
      ]_vars

\* C30, amended: after the deletion no request with the token reaches a
\* protected handler: one that the rate limiter passes on is answered 401
\* 'User not found' by authMiddleware, one over the limit 429 by the limiter.
\* POST /auth/signout revokes nothing: of the user table it writes the
\* user's lastActiveAt only (it also leaves an audit row and a point on the
\* limiter), so the token is accepted after it.
C30_DeletedRejectedSignoutRevokesNothing ==
    [][exchange' # exchange =>
          /\ \A id \in {u.id : u \in userRows} :
                (Deleted(id) /\ CarriedTokenOf(exchange', id)) =>
                    /\ exchange'.handler = None
                    /\ userTable' = userTable
                    /\ exchange'.admitted =>
                          /\ exchange'.response.status = 401
                          /\ exchange'.response.message = "User not found"
                    /\ ~exchange'.admitted => exchange'.response.status = 429
          /\ exchange'.handler = "signout" =>
                /\ \E u \in userTable :
                      /\ u.id = exchange'.user.id
                      /\ userTable' = (userTable \ {u})
                                         \cup {[u EXCEPT !.lastActiveAt = clock]}
                /\ Len(auditLog') = Len(auditLog) + 1
                /\ authMiddleware(userTable', exchange'.request, clock').next
      ]_vars

\* the user signed out, then listed the venues with the same token, then
\* deleted the account; the next request with the token is answered 401
\* 'User not found'
C30_Witness ==
    /\ exchange # NotServed
    /\ CarriedTokenOf(exchange, "user")
    /\ exchange.response.status = 401
    /\ exchange.response.message = "User not found"
    /\ exchange.handler = None
    /\ \E i, j, k \in 1 .. Len(auditLog) :
          /\ i < j /\ j < k /\ k < Len(auditLog)
          /\ auditLog[i].action = <<"POST", PathSignout>>
          /\ auditLog[i].metadata.statusCode = 200
          /\ auditLog[j].action = <<"GET", PathVenues>>
          /\ auditLog[j].metadata.statusCode = 200
          /\ auditLog[j].userId = "user"
          /\ auditLog[k].action = <<"DELETE", PathUsersMe>>
          /\ auditLog[k].metadata.statusCode = 200

---------------------------------------------------------------------------
(* Properties of the generator (SpecGen) *)

IsCurve(c) == DOMAIN c = 0 .. 23 /\ \A h \in 0 .. 23 : c[h] \in 0 .. 100

\* the call came back with a value; it does for every category string
DayPatternReturned == dayPattern.called /\ ~dayPattern.threw
PopularTimesReturned == popularTimes.called /\ ~popularTimes.threw

\* C9: whatever the category and the day, generateDayPattern yields 24
\* values, each in 0..100, and generateEstimatedPopularTimes yields exactly
\* the names Monday..Sunday, each with such a curve.
C9_CurveShape ==
    /\ DayPatternReturned => IsCurve(dayPattern.hourlyData)
    /\ PopularTimesReturned =>
          LET data == popularTimes.result.graph_results.data
          IN  /\ DOMAIN data = {"Monday", "Tuesday", "Wednesday", "Thursday",
                                "Friday", "Saturday", "Sunday"}
              /\ \A dayName \in DOMAIN data : IsCurve(data[dayName])

\* a full week and a single day were generated for a category; the week's
\* highest value is the 95 of a bar
C9_Witness ==
    /\ DayPatternReturned
    /\ PopularTimesReturned
    /\ venueCategory # <<>>
    /\ popularTimes.result.graph_results.data["Saturday"][23] = 95

\* word, written in lower case, occurs in str in whatever case
ContainsWord(str, word) ==
    \E i \in 1 .. Len(str) - Len(word) + 1 :
        \A j \in 1 .. Len(word) :
            \/ str[i + j - 1] = word[j]
            \/ /\ str[i + j - 1] \in DOMAIN LowerOf
               /\ LowerOf[str[i + j - 1]] = word[j]

IsBarCategory(str) ==
    \/ ContainsWord(str, <<"b", "a", "r">>)
    \/ ContainsWord(str, <<"n", "i", "g", "h", "t", "c", "l", "u", "b">>)
IsRestaurantCategory(str) ==
    ContainsWord(str, <<"r", "e", "s", "t", "a", "u", "r", "a", "n", "t">>)
IsCafeCategory(str) == ContainsWord(str, <<"c", "a", "f", "e">>)

\* the curves of each family, over its day types
BarCurves ==
    {[h \in 0 .. 23 |-> calculateBarPopularity(h, w, f)] : w \in BOOLEAN, f \in BOOLEAN}
RestaurantCurves ==
    {[h \in 0 .. 23 |-> calculateRestaurantPopularity(h, w)] : w \in BOOLEAN}
CafeCurves ==
    {[h \in 0 .. 23 |-> calculateCafePopularity(h, w)] : w \in BOOLEAN}
GenericCurves ==
    {[h \in 0 .. 23 |-> calculateGenericPopularity(h, w)] : w \in BOOLEAN}

\* C10: the category is classified by case-insensitive substring match in the
\* order bar/nightclub, restaurant, cafe, and the first match wins; a category
\* matching none gets the generic curve.
C10_FirstMatchWins ==
    DayPatternReturned =>
        LET curve == dayPattern.hourlyData
            bar == IsBarCategory(venueCategory)
            restaurant == IsRestaurantCategory(venueCategory)
            cafe == IsCafeCategory(venueCategory)
        IN  /\ bar => curve \in BarCurves
            /\ (~bar /\ restaurant) => curve \in RestaurantCurves
            /\ (~bar /\ ~restaurant /\ cafe) => curve \in CafeCurves
            /\ (~bar /\ ~restaurant /\ ~cafe) => curve \in GenericCurves

\* a category naming a restaurant before a bar gets a bar curve, which is no
\* restaurant curve
C10_Witness ==
    /\ DayPatternReturned
    /\ IsRestaurantCategory(venueCategory)
    /\ ContainsWord(venueCategory, <<"b", "a", "r">>)
    /\ dayPattern.hourlyData \in BarCurves
    /\ dayPattern.hourlyData \notin RestaurantCurves

\* a category that names no bar, nightclub, restaurant or cafe: null, the
\* empty string, or a string in which none of the words occurs
Unrecognized(category) ==
    \/ category = null
    \/ ~(IsBarCategory(category) \/ IsRestaurantCategory(category)
             \/ IsCafeCategory(category))

\* C11: for an unrecognized category (the empty string, null, or a string
\* matching no family such as "Laundromat") the generator returns the generic
\* curve and never raises an error.
C11_UnrecognizedIsGeneric ==
    /\ (dayPattern.called /\ Unrecognized(venueCategory)) =>
          /\ ~dayPattern.threw
          /\ dayPattern.hourlyData \in GenericCurves
    /\ (popularTimes.called /\ Unrecognized(venueCategory)) =>
          /\ ~popularTimes.threw
          /\ \A dayName \in DOMAIN popularTimes.result.graph_results.data :
                popularTimes.result.graph_results.data[dayName] \in GenericCurves

\* the unrecognized categories that are strings do get the generic curve
C11_StringsAreGeneric ==
    /\ (dayPattern.called /\ Unrecognized(venueCategory) /\ venueCategory # null) =>
          /\ ~dayPattern.threw
          /\ dayPattern.hourlyData \in GenericCurves
    /\ (popularTimes.called /\ Unrecognized(venueCategory) /\ venueCategory # null) =>
          /\ ~popularTimes.threw
          /\ \A dayName \in DOMAIN popularTimes.result.graph_results.data :
                popularTimes.result.graph_results.data[dayName] \in GenericCurves

\* generateDayPattern was called with null and raised
C11_Witness ==
    /\ venueCategory = null
    /\ dayPattern.called
    /\ dayPattern.threw

\* the bar/nightclub curve with the weekend/Friday adjustment, hour by hour
AdjustedBarCurve ==
    [h \in 0 .. 23 |->
        IF h <= 5 THEN 30
        ELSE IF h <= 11 THEN 5
        ELSE IF h <= 16 THEN 35
        ELSE IF h <= 19 THEN 65
        ELSE IF h <= 22 THEN 90
        ELSE 95]

\* C12: for a category containing 'bar' or 'nightclub' and dayOfWeek = 6
\* (Saturday), the curve is 30 at hours 0-5, 5 at 6-11, 35 at 12-16, 65 at
\* 17-19, 90 at 20-22 and 95 at 23; it is the curve the week lists as Saturday.
C12_SaturdayBarCurve ==
    /\ (DayPatternReturned /\ IsBarCategory(venueCategory) /\ dayPattern.dayOfWeek = 6) =>
          dayPattern.hourlyData = AdjustedBarCurve
    /\ (PopularTimesReturned /\ IsBarCategory(venueCategory)) =>
          popularTimes.result.graph_results.data["Saturday"] = AdjustedBarCurve

\* "Latin Bar & Nightclub" was generated for day 6
C12_Witness ==
    /\ DayPatternReturned
    /\ Len(venueCategory) = 21
    /\ IsBarCategory(venueCategory)
    /\ dayPattern.dayOfWeek = 6
    /\ dayPattern.hourlyData[18] = 65

\* C13: in the full week of a bar/nightclub category the curve named Friday
\* has the Friday late-night adjustment (30 at hours 0-5, 90 at 20-22, 95 at
\* 23) and differs from each of Monday..Thursday, and the curves with the
\* weekend magnitudes are exactly those of Saturday and Sunday.
C13_DayTypes ==
    (PopularTimesReturned /\ IsBarCategory(venueCategory)) =>
        LET data == popularTimes.result.graph_results.data
        IN  /\ \A h \in 0 .. 5 : data["Friday"][h] = 30
            /\ \A h \in 20 .. 22 : data["Friday"][h] = 90
            /\ data["Friday"][23] = 95
            /\ \A dayName \in {"Monday", "Tuesday", "Wednesday", "Thursday"} :
                  data["Friday"] # data[dayName]
            /\ \A dayName \in DOMAIN data :
                  (\A h \in 12 .. 16 : data[dayName][h] = 35)
                      <=> dayName \in {"Saturday", "Sunday"}

\* a bar's week in which Friday is the curve of Monday
C13_Witness ==
    /\ PopularTimesReturned
    /\ IsBarCategory(venueCategory)
    /\ popularTimes.result.graph_results.data["Friday"]
          = popularTimes.result.graph_results.data["Monday"]
    /\ popularTimes.result.graph_results.data["Friday"][23] = 70

=============================================================================
